---- MODULE Spec2Model ----
(***************************************************************************)
(* A model of the serverlessVector in-memory vector store (package lib):   *)
(* the store operations of lib/types.go, the metrics of lib/distance.go    *)
(* and the linear-scan search of lib/search.go.                            *)
(*                                                                         *)
(* Numbers.  Vector elements are small integers, which float32 and float64 *)
(* both represent exactly, so the sums and products of the metrics are     *)
(* exact.  A float64 result (a score) is held in fixed point, as the       *)
(* integer number of 1/Scale units; square root and division round down   *)
(* to that unit.  The values that are not finite, NaN and the two          *)
(* infinities, are three numbers outside the range of the finite ones, and *)
(* the arithmetic and the comparisons treat them as IEEE 754 does.         *)
(***************************************************************************)
EXTENDS Integers, Sequences, FiniteSets, TLC

\* ------------------------------------------------------------------ bounds
MaxLen == 2          \* longest vector (stored or query) explored
MaxVal == 1          \* elements range over 0..MaxVal
MaxTopK == 2         \* largest explicit topK explored
Scale == 1000        \* fixed-point units per 1.0 of a float64 score
NumIDs == 2          \* number of distinct non-empty vector IDs (Spec)
BulkSize == 12       \* number of vectors the bulk store grows to (SpecBulk)
FullOrderKeys == 3   \* maps of up to this many keys are ranged in every order
NumProcs == 2        \* number of concurrent callers (SpecConc)
MaxBatch == 2        \* largest map handed to BatchAdd or BatchSearch
MaxTagMaps == 2      \* most Tags maps allocated by callers (SpecAlias)
Tolerance == 2       \* floating tolerance of a score, in 1/Scale units
MaxDotLen == 17      \* longest slices handed to dotProduct (SpecMetric)

\* ------------------------------------------------------- program constants
Float32 == 0
Float64 == 1
CosineSimilarity == 0
DotProduct == 1
EuclideanDistance == 2
ManhattanDistance == 3
DefaultTopK == 10
PosInf == 1000000000 \* math.Inf(1)
NegInf == -1000000000 \* math.Inf(-1)
NaN == 2000000000 \* math.NaN()

VectorTypes == {Float32, Float64}

\* ---------------------------------------------------------------- helpers
\* All sequences over S of length 0..n.
SeqsUpTo(S, n) == UNION {[1..k -> S] : k \in 0..n}

\* The permutations of the set S, as sequences.
Perms(S) ==
    {s \in [1..Cardinality(S) -> S] : \A x \in S : \E i \in DOMAIN s : s[i] = x}

\* Floor of the square root of x, by bisection: lo * lo <= x < hi * hi.
RECURSIVE ISqrtBetween(_, _, _)
ISqrtBetween(x, lo, hi) ==
    IF hi - lo <= 1 THEN lo
    ELSE LET mid == (lo + hi) \div 2
         IN  IF mid * mid <= x THEN ISqrtBetween(x, mid, hi)
             ELSE ISqrtBetween(x, lo, mid)

ISqrt(x) == ISqrtBetween(x, 0, 46341)

\* ------------------------------------------------------ numeric abstraction
\* convertToInterfaceSlice: a Go value of type []float32 or []float64 becomes
\* ([]interface{}, VectorType, nil); any other type is an error.  A Go value
\* is the record [kind, elems], kind being its dynamic type.
GoFloat32s == "[]float32"
GoFloat64s == "[]float64"
GoOther == "other"

convertToInterfaceSlice(data) ==
    CASE data.kind = GoFloat32s ->
             [slice |-> data.elems, type |-> Float32, err |-> FALSE]
      [] data.kind = GoFloat64s ->
             [slice |-> data.elems, type |-> Float64, err |-> FALSE]
      [] OTHER ->
             [slice |-> <<>>, type |-> 0, err |-> TRUE]

\* NumericOps.IsNaN and NumericOps.IsInf (either sign).
IsNaN(x) == x = NaN
IsInf(x) == x = PosInf \/ x = NegInf
IsFinite(x) == ~IsNaN(x) /\ ~IsInf(x)

\* Go's == and < on floating-point values: false when an operand is NaN.
FloatEq(x, y) == ~IsNaN(x) /\ ~IsNaN(y) /\ x = y
FloatLess(x, y) == ~IsNaN(x) /\ ~IsNaN(y) /\ x < y

\* The infinity that a product or quotient of x and y is, neither being NaN
\* or zero: positive when the signs agree.
SignedInf(x, y) == IF (x < 0) = (y < 0) THEN PosInf ELSE NegInf

\* types.go 79-96: every method of Float32Ops and Float64Ops asserts the type
\* of its arguments, x.(float32) or x.(float64), and a failed assertion is a
\* run-time panic.  The elements of one []interface{} slice all hold the same
\* type (convertToInterfaceSlice, types.go 37-54): aType and bType are the
\* types held by the elements of a and b, and the ops are those getNumericOps
\* gives for vecType (types.go 25-34).  The metrics hand every element of both
\* slices to Mul or Add: dotProduct, euclideanDistance and manhattanDistance
\* when the lengths are equal (distance.go 7-34, 55-65, 72-86), norm always
\* (distance.go 96-98), and cosineSimilarity calls norm on both slices.  The
\* call of the metric panics when a slice it goes through holds elements of
\* another type than the ops'.
opsAbort(a, aType, b, bType, vecType, distanceFunc) ==
    LET ops == IF vecType = Float32 THEN Float32 ELSE Float64
        asserted(s, sType) == Len(s) > 0 /\ sType # ops
    IN  IF distanceFunc = CosineSimilarity
        THEN asserted(a, aType) \/ asserted(b, bType)
        ELSE Len(a) = Len(b) /\ (asserted(a, aType) \/ asserted(b, bType))

\* NumericOps.Add: x + y in float32 or float64, on two values of the ops'
\* type (opsAbort tells when they are not).  Float32Ops and Float64Ops differ
\* only in rounding, which exact integers do not need, so getNumericOps'
\* dispatch on vecType does not show in the values of these operators.
opsAdd(x, y) ==
    IF IsNaN(x) \/ IsNaN(y) THEN NaN
    ELSE IF IsInf(x) /\ IsInf(y) THEN (IF x = y THEN x ELSE NaN)
    ELSE IF IsInf(x) THEN x
    ELSE IF IsInf(y) THEN y
    ELSE x + y

\* NumericOps.Mul: x * y in float32 or float64.
opsMul(x, y) ==
    IF IsNaN(x) \/ IsNaN(y) THEN NaN
    ELSE IF IsInf(x) \/ IsInf(y)
         THEN (IF x = 0 \/ y = 0 THEN NaN ELSE SignedInf(x, y))
    ELSE x * y

\* NumericOps.Sqrt followed by ToFloat64, on an exact integer sum: the result
\* in fixed point.
SqrtToFloat64(sum, vecType) ==
    IF IsNaN(sum) THEN NaN
    ELSE IF sum = PosInf THEN PosInf
    ELSE IF sum < 0 THEN NaN
    ELSE ISqrt(sum * Scale * Scale)

\* NumericOps.ToFloat64 of an exact integer value, in fixed point.
ToFloat64(x, vecType) == IF IsFinite(x) THEN x * Scale ELSE x

\* A float64 product and quotient of two fixed-point values.
MulFloat64(x, y) ==
    IF IsNaN(x) \/ IsNaN(y) THEN NaN
    ELSE IF IsInf(x) \/ IsInf(y)
         THEN (IF x = 0 \/ y = 0 THEN NaN ELSE SignedInf(x, y))
    ELSE (x * y) \div Scale
DivFloat64(x, y) ==
    IF IsNaN(x) \/ IsNaN(y) THEN NaN
    ELSE IF IsInf(x) THEN (IF IsInf(y) THEN NaN ELSE SignedInf(x, y))
    ELSE IF IsInf(y) THEN 0
    ELSE IF y = 0 THEN (IF x = 0 THEN NaN ELSE SignedInf(x, 1))
    ELSE (x * Scale) \div y

\* ------------------------------------------------------------------ metrics
\* Slices are 0-based in the source and 1-based here: a[i] there is a[i + 1].

\* The 8-way unrolled loop of dotProduct, from index i, while i <= n - 8.
RECURSIVE dotUnrolled(_, _, _, _)
dotUnrolled(a, b, i, sum) ==
    IF i <= Len(a) - 8
    THEN LET s1 == opsAdd(sum, opsMul(a[i + 1], b[i + 1]))
             s2 == opsAdd(s1, opsMul(a[i + 2], b[i + 2]))
             s3 == opsAdd(s2, opsMul(a[i + 3], b[i + 3]))
             s4 == opsAdd(s3, opsMul(a[i + 4], b[i + 4]))
             s5 == opsAdd(s4, opsMul(a[i + 5], b[i + 5]))
             s6 == opsAdd(s5, opsMul(a[i + 6], b[i + 6]))
             s7 == opsAdd(s6, opsMul(a[i + 7], b[i + 7]))
             s8 == opsAdd(s7, opsMul(a[i + 8], b[i + 8]))
         IN  dotUnrolled(a, b, i + 8, s8)
    ELSE sum

\* The remainder loop of dotProduct, from index i, while i < n.
RECURSIVE dotRemainder(_, _, _, _)
dotRemainder(a, b, i, sum) ==
    IF i < Len(a)
    THEN dotRemainder(a, b, i + 1, opsAdd(sum, opsMul(a[i + 1], b[i + 1])))
    ELSE sum

\* The indices at which the two loops of dotProduct add a product, in the
\* order in which they add them, for slices of length n: the 8-way unrolled
\* loop from index i while i <= n - 8 (distance.go 21-30), the remainder loop
\* from index i while i < n (distance.go 33-35), and the second started at
\* (n / 8) * 8 after the first.
RECURSIVE dotUnrolledOrder(_, _, _)
dotUnrolledOrder(n, i, order) ==
    IF i <= n - 8
    THEN dotUnrolledOrder(n, i + 8,
             order \o <<i, i + 1, i + 2, i + 3, i + 4, i + 5, i + 6, i + 7>>)
    ELSE order

RECURSIVE dotRemainderOrder(_, _, _)
dotRemainderOrder(n, i, order) ==
    IF i < n THEN dotRemainderOrder(n, i + 1, Append(order, i)) ELSE order

dotProductOrder(n) ==
    dotRemainderOrder(n, (n \div 8) * 8, dotUnrolledOrder(n, 0, <<>>))

\* dotProduct without the remainder loop.
dotProductNoRemainder(a, b, vecType) ==
    IF Len(a) # Len(b) THEN 0
    ELSE IF Len(a) = 0 THEN 0
    ELSE ToFloat64(dotUnrolled(a, b, 0, 0), vecType)

\* dotProduct with a slip: both factors of every product are read from a.
dotProductOfFirst(a, b, vecType) ==
    IF Len(a) # Len(b) THEN 0
    ELSE IF Len(a) = 0 THEN 0
    ELSE ToFloat64(
             dotRemainder(a, a, (Len(a) \div 8) * 8, dotUnrolled(a, a, 0, 0)),
             vecType)

dotProduct(a, b, vecType) ==
    IF Len(a) # Len(b) THEN 0
    ELSE IF Len(a) = 0 THEN 0
    ELSE ToFloat64(
             dotRemainder(a, b, (Len(a) \div 8) * 8, dotUnrolled(a, b, 0, 0)),
             vecType)

RECURSIVE sumSquares(_, _, _)
sumSquares(v, i, sum) ==
    IF i < Len(v)
    THEN sumSquares(v, i + 1, opsAdd(sum, opsMul(v[i + 1], v[i + 1])))
    ELSE sum

norm(v, vecType) == SqrtToFloat64(sumSquares(v, 0, 0), vecType)

\* cosineSimilarity without the division by the norms.
cosineSimilarityNoNorm(a, b, vecType) ==
    LET dotProd == dotProduct(a, b, vecType)
        normA == norm(a, vecType)
        normB == norm(b, vecType)
    IN  IF FloatEq(normA, 0) \/ FloatEq(normB, 0) THEN 0
        ELSE dotProd

cosineSimilarity(a, b, vecType) ==
    LET dotProd == dotProduct(a, b, vecType)
        normA == norm(a, vecType)
        normB == norm(b, vecType)
    IN  IF FloatEq(normA, 0) \/ FloatEq(normB, 0) THEN 0
        ELSE DivFloat64(dotProd, MulFloat64(normA, normB))

\* elementDiff without the factor -1: x + y.
elementSum(x, y) == opsAdd(x, y)

\* distance.go 63 and 80, diff := ops.Add(a[i], ops.Mul(b[i], ops.FromFloat64(-1)))
elementDiff(x, y) == opsAdd(x, opsMul(y, -1))

RECURSIVE sumSquaredDiffs(_, _, _, _)
sumSquaredDiffs(a, b, i, sum) ==
    IF i < Len(a)
    THEN LET diff == elementDiff(a[i + 1], b[i + 1])
         IN  sumSquaredDiffs(a, b, i + 1, opsAdd(sum, opsMul(diff, diff)))
    ELSE sum

\* euclideanDistance answering a length mismatch with 0.
euclideanDistanceMismatchZero(a, b, vecType) ==
    IF Len(a) # Len(b) THEN 0
    ELSE SqrtToFloat64(sumSquaredDiffs(a, b, 0, 0), vecType)

euclideanDistance(a, b, vecType) ==
    IF Len(a) # Len(b) THEN PosInf
    ELSE SqrtToFloat64(sumSquaredDiffs(a, b, 0, 0), vecType)

\* absDiff without the test of the sign: diff itself.
absDiffUnsigned(diff) == diff

\* distance.go 81-84: absDiff is diff, negated if ToFloat64(diff) < 0.
\* ToFloat64 keeps the sign and keeps NaN.
absDiff(diff) == IF FloatLess(diff, 0) THEN opsMul(diff, -1) ELSE diff

RECURSIVE sumAbsDiffs(_, _, _, _)
sumAbsDiffs(a, b, i, sum) ==
    IF i < Len(a)
    THEN LET diff == elementDiff(a[i + 1], b[i + 1])
         IN  sumAbsDiffs(a, b, i + 1, opsAdd(sum, absDiff(diff)))
    ELSE sum

manhattanDistance(a, b, vecType) ==
    IF Len(a) # Len(b) THEN PosInf
    ELSE ToFloat64(sumAbsDiffs(a, b, 0, 0), vecType)

calculateSimilarity(a, b, vecType, distanceFunc) ==
    CASE distanceFunc = CosineSimilarity -> cosineSimilarity(a, b, vecType)
      [] distanceFunc = DotProduct -> dotProduct(a, b, vecType)
      [] distanceFunc = EuclideanDistance -> euclideanDistance(a, b, vecType)
      [] distanceFunc = ManhattanDistance -> manhattanDistance(a, b, vecType)
      [] OTHER -> dotProduct(a, b, vecType)

\* ------------------------------------------------------------- input domains
IDNames == <<"a", "b", "c", "d", "e", "f", "g", "h", "i", "j", "k", "l", "m">>
IDs == {IDNames[i] : i \in 1..NumIDs}
IndexOf(id) == CHOOSE i \in 1..Len(IDNames) : IDNames[i] = id

\* The keys S in the order of their names.
RECURSIVE SortedKeys(_)
SortedKeys(S) ==
    IF S = {} THEN <<>>
    ELSE LET first == CHOOSE x \in S : \A y \in S : IndexOf(x) <= IndexOf(y)
         IN  <<first>> \o SortedKeys(S \ {first})

\* The orders in which a Go map with the keys S is ranged over.  The language
\* leaves the order unspecified and the runtime varies it from one range to
\* the next: every permutation of the keys is possible.
RangeOrders(S) == Perms(S)
EmptyID == ""
Procs == 1..NumProcs

\* The elements of the vectors of Spec, SpecFilter, SpecBatch and SpecStore:
\* finite.  Vectors with elements that are NaN or infinite, which Add, Update
\* and BatchAdd store like any other, are those of SpecRank, of SpecCosine
\* (CosineValues) and of SpecMetric (MetricSlices).
Elems == SeqsUpTo(0..MaxVal, MaxLen)
\* The Go values handed in as vector data or as a query.
GoValues ==
    {[kind |-> k, elems |-> e] : k \in {GoFloat32s, GoFloat64s}, e \in Elems}
        \cup {[kind |-> GoOther, elems |-> <<>>]}

\* filterFunc: nil, or a predicate on the stored vector; a predicate is held
\* as the set of IDs of the vectors it accepts.
NilFilter == [nil |-> TRUE, accepts |-> {}]
filterFunc(f, vector) == vector.ID \in f.accepts

\* ------------------------------------------------------------------- values
\* error values; NoErr is the nil error.
Error(kind, key, a, b) ==
    [kind |-> kind, key |-> key, a |-> a, b |-> b, cause |-> ""]
\* fmt.Errorf("search failed for query %s: %v", queryID, err)
SearchFailed(queryID, err) ==
    [kind |-> "SearchFailed", key |-> queryID, a |-> err.a, b |-> err.b,
     cause |-> err.kind]
NoErr == Error("nil", "", 0, 0)
\* The run-time panic of a failed type assertion (types.go 79-96): not an
\* error value.  No operation recovers from it: it unwinds the operation, its
\* deferred unlock is run, and the caller is aborted.
Panic == Error("panic", "", 0, 0)

NoCall == [op |-> "none"]
NoRet == [err |-> NoErr, val |-> <<>>]
NoFrame == [active |-> FALSE]
EmptyMap == [i \in {} |-> 0]

\* VectorMetadata, types.go 118-123: Tags is a reference to a map, NilTags the
\* nil map; Score stands for the fields held by value (CreatedAt and
\* UpdatedAt hold the time of the clock and are left out).
NilTags == 0
NoMetadata == [Tags |-> NilTags, Score |-> 0]
NoBatch == [pending |-> {}, key |-> "", results |-> EmptyMap]

\* -------------------------------------------------------------------- state
VARIABLES
    vectors,     \* db.vectors: the map from ID to *Vector, as a function
    dimension,   \* db.dimension
    distFunc,    \* db.distFunc
    mu,          \* db.mu: w = the caller holding the write lock (0 = none),
                 \*        r = the callers holding the read lock
    pc,          \* pc[p]: where caller p is in its current operation
    call,        \* call[p]: the operation caller p is in, with its arguments
    sc,          \* sc[p]: the frame of p's current searchCore call
    batch,       \* batch[p]: the loop state of p's BatchSearch or BatchAdd
    ret,         \* ret[p]: what p's operation returns
    heap         \* the Tags maps allocated so far: heap[m] is what the
                 \* map[string]string at reference m holds

vars == <<vectors, dimension, distFunc, mu, pc, call, sc, batch, ret, heap>>
db == <<vectors, dimension, distFunc>>

Init ==
    /\ vectors = EmptyMap
    /\ dimension \in 0..MaxLen
    /\ distFunc \in {CosineSimilarity, DotProduct, EuclideanDistance,
                     ManhattanDistance}
    /\ mu = [w |-> 0, r |-> {}]
    /\ pc = [p \in Procs |-> "idle"]
    /\ call = [p \in Procs |-> NoCall]
    /\ sc = [p \in Procs |-> NoFrame]
    /\ batch = [p \in Procs |-> NoBatch]
    /\ ret = [p \in Procs |-> NoRet]
    /\ heap = EmptyMap

\* The map db.vectors with key id set to vector, and with key id deleted.
MapPut(m, id, vector) ==
    [i \in DOMAIN m \cup {id} |-> IF i = id THEN vector ELSE m[i]]
MapDelete(m, id) == [i \in DOMAIN m \ {id} |-> m[i]]

\* p's operation ends with the given error and value; no lock is held.  An
\* operation that panicked does not return: its caller is aborted.
Returns(p, err, val) ==
    /\ pc' = [pc EXCEPT ![p] = IF err = Panic THEN "panic" ELSE "return"]
    /\ ret' = [ret EXCEPT ![p] = [err |-> err, val |-> val]]

\* p's operation goes on at position at.
Goto(p, at) == pc' = [pc EXCEPT ![p] = at]

\* ------------------------------------------------------------------ db.mu
\* sync.RWMutex: RLock waits while a writer holds the lock, Lock waits while
\* a writer or any reader holds it.
RLock(p) ==
    /\ mu.w = 0
    /\ mu' = [mu EXCEPT !.r = @ \cup {p}]

RUnlock(p) == mu' = [mu EXCEPT !.r = @ \ {p}]

Lock(p) ==
    /\ mu.w = 0
    /\ mu.r = {}
    /\ mu' = [mu EXCEPT !.w = p]

Unlock(p) == mu' = [mu EXCEPT !.w = 0]

\* No caller holds db.mu: a whole operation can run from its Lock or RLock
\* to its deferred unlock.
Unlocked == mu.w = 0 /\ mu.r = {}

\* --------------------------------------------------------------- searchCore
SearchResultOf(queryID, results) ==
    [QueryID |-> queryID, Results |-> results, Total |-> Len(results)]

\* searchCoreBegin without the default for topK <= 0.
searchCoreBeginNoDefault(query, topK, includeMetadata, filter) ==
    LET conv == convertToInterfaceSlice(query)
    IN  IF conv.err
        THEN [err |-> Error("UnsupportedType", "", 0, 0), frame |-> NoFrame]
        ELSE IF Len(conv.slice) = 0
        THEN [err |-> Error("EmptyQuery", "", 0, 0), frame |-> NoFrame]
        ELSE [err |-> NoErr,
              frame |-> [active |-> TRUE,
                         querySlice |-> conv.slice,
                         queryType |-> conv.type,
                         topK |-> IF topK < 0 THEN 0 ELSE topK,
                         includeMetadata |-> includeMetadata,
                         filter |-> filter,
                         visited |-> {},
                         results |-> <<>>,
                         out |-> NoRet]]

\* searchCoreBegin without the check for an empty query.
searchCoreBeginNoEmptyCheck(query, topK, includeMetadata, filter) ==
    LET conv == convertToInterfaceSlice(query)
    IN  IF conv.err
        THEN [err |-> Error("UnsupportedType", "", 0, 0), frame |-> NoFrame]
        ELSE [err |-> NoErr,
              frame |-> [active |-> TRUE,
                         querySlice |-> conv.slice,
                         queryType |-> conv.type,
                         topK |-> IF topK <= 0 THEN DefaultTopK ELSE topK,
                         includeMetadata |-> includeMetadata,
                         filter |-> filter,
                         visited |-> {},
                         results |-> <<>>,
                         out |-> NoRet]]

\* search.go 40-50: the query is decoded and checked and topK normalised,
\* before the lock is taken.  The result is the error, or the frame the scan
\* starts from.
searchCoreBegin(query, topK, includeMetadata, filter) ==
    LET conv == convertToInterfaceSlice(query)
    IN  IF conv.err
        THEN [err |-> Error("UnsupportedType", "", 0, 0), frame |-> NoFrame]
        ELSE IF Len(conv.slice) = 0
        THEN [err |-> Error("EmptyQuery", "", 0, 0), frame |-> NoFrame]
        ELSE [err |-> NoErr,
              frame |-> [active |-> TRUE,
                         querySlice |-> conv.slice,
                         queryType |-> conv.type,
                         topK |-> IF topK <= 0 THEN DefaultTopK ELSE topK,
                         includeMetadata |-> includeMetadata,
                         filter |-> filter,
                         visited |-> {},
                         results |-> <<>>,
                         out |-> NoRet]]

\* emptyStoreResult answering an empty store with an error.
emptyStoreError(frame) ==
    [frame EXCEPT !.out = [err |-> Error("EmptyStore", "", 0, 0), val |-> <<>>]]

\* search.go 55-57: an empty store is answered at once.
emptyStoreResult(frame) ==
    [frame EXCEPT !.out = [err |-> NoErr, val |-> <<SearchResultOf("", <<>>)>>]]

\* search.go 76-85: the result for a stored vector of the query's length and
\* type, its Metadata copied from the stored vector when asked for.
similarityResult(frame, vector, df) ==
    [ID |-> vector.ID,
     Score |-> calculateSimilarity(frame.querySlice, vector.Data,
                                   frame.queryType, df),
     Metadata |-> IF frame.includeMetadata THEN vector.Metadata ELSE NoMetadata]

\* scanVector with the element type checked before the length.
scanVectorTypeFirst(frame, vector, df) ==
    LET seen == [frame EXCEPT !.visited = @ \cup {vector.ID}]
    IN  IF ~frame.filter.nil /\ ~filterFunc(frame.filter, vector)
        THEN seen
        ELSE IF vector.Type # frame.queryType
        THEN seen
        ELSE IF Len(vector.Data) # Len(frame.querySlice)
        THEN [seen EXCEPT !.out =
                 [err |-> Error("DimensionMismatch", "",
                                Len(frame.querySlice), Len(vector.Data)),
                  val |-> <<>>]]
        ELSE IF opsAbort(frame.querySlice, frame.queryType, vector.Data,
                         vector.ElemType, frame.queryType, df)
        THEN [seen EXCEPT !.out = [err |-> Panic, val |-> <<>>]]
        ELSE [seen EXCEPT !.results =
                 Append(@, similarityResult(frame, vector, df))]

\* scanVector with the length checked before the filter.
scanVectorLengthFirst(frame, vector, df) ==
    LET seen == [frame EXCEPT !.visited = @ \cup {vector.ID}]
    IN  IF Len(vector.Data) # Len(frame.querySlice)
        THEN [seen EXCEPT !.out =
                 [err |-> Error("DimensionMismatch", "",
                                Len(frame.querySlice), Len(vector.Data)),
                  val |-> <<>>]]
        ELSE IF ~frame.filter.nil /\ ~filterFunc(frame.filter, vector)
        THEN seen
        ELSE IF vector.Type # frame.queryType
        THEN seen
        ELSE IF opsAbort(frame.querySlice, frame.queryType, vector.Data,
                         vector.ElemType, frame.queryType, df)
        THEN [seen EXCEPT !.out = [err |-> Panic, val |-> <<>>]]
        ELSE [seen EXCEPT !.results =
                 Append(@, similarityResult(frame, vector, df))]

\* scanVector without the check of the element type.
scanVectorNoTypeCheck(frame, vector, df) ==
    LET seen == [frame EXCEPT !.visited = @ \cup {vector.ID}]
    IN  IF ~frame.filter.nil /\ ~filterFunc(frame.filter, vector)
        THEN seen
        ELSE IF Len(vector.Data) # Len(frame.querySlice)
        THEN [seen EXCEPT !.out =
                 [err |-> Error("DimensionMismatch", "",
                                Len(frame.querySlice), Len(vector.Data)),
                  val |-> <<>>]]
        ELSE IF opsAbort(frame.querySlice, frame.queryType, vector.Data,
                         vector.ElemType, frame.queryType, df)
        THEN [seen EXCEPT !.out = [err |-> Panic, val |-> <<>>]]
        ELSE [seen EXCEPT !.results =
                 Append(@, similarityResult(frame, vector, df))]

\* scanVector returning an error for a vector of the other element type.
scanVectorTypeError(frame, vector, df) ==
    LET seen == [frame EXCEPT !.visited = @ \cup {vector.ID}]
    IN  IF ~frame.filter.nil /\ ~filterFunc(frame.filter, vector)
        THEN seen
        ELSE IF Len(vector.Data) # Len(frame.querySlice)
        THEN [seen EXCEPT !.out =
                 [err |-> Error("DimensionMismatch", "",
                                Len(frame.querySlice), Len(vector.Data)),
                  val |-> <<>>]]
        ELSE IF vector.Type # frame.queryType
        THEN [seen EXCEPT !.out =
                 [err |-> Error("TypeMismatch", "", 0, 0), val |-> <<>>]]
        ELSE [seen EXCEPT !.results =
                 Append(@, similarityResult(frame, vector, df))]

\* search.go 62-87: the body of the loop for one stored vector.  The frame
\* after it; out.err is set when the loop returns an error, and is Panic
\* when calculateSimilarity (search.go 76) panics on a failed type assertion.
scanVector(frame, vector, df) ==
    LET seen == [frame EXCEPT !.visited = @ \cup {vector.ID}]
    IN  IF ~frame.filter.nil /\ ~filterFunc(frame.filter, vector)
        THEN seen
        ELSE IF Len(vector.Data) # Len(frame.querySlice)
        THEN [seen EXCEPT !.out =
                 [err |-> Error("DimensionMismatch", "",
                                Len(frame.querySlice), Len(vector.Data)),
                  val |-> <<>>]]
        ELSE IF vector.Type # frame.queryType
        THEN seen
        ELSE IF opsAbort(frame.querySlice, frame.queryType, vector.Data,
                         vector.ElemType, frame.queryType, df)
        THEN [seen EXCEPT !.out = [err |-> Panic, val |-> <<>>]]
        ELSE [seen EXCEPT !.results =
                 Append(@, similarityResult(frame, vector, df))]

\* less with the higher score first whatever the metric.
lessDescending(ri, rj, df) == ri.Score > rj.Score

\* search.go 91-98: the less function handed to sort.Slice.
less(ri, rj, df) ==
    IF df \in {EuclideanDistance, ManhattanDistance}
    THEN FloatLess(ri.Score, rj.Score)
    ELSE FloatLess(rj.Score, ri.Score)

\* sort.Slice: for the slices of up to 12 elements explored here it is an
\* insertion sort, which moves element i down while it is less than the one
\* before it.
RECURSIVE moveDown(_, _, _)
moveDown(s, j, df) ==
    IF j > 1 /\ less(s[j], s[j - 1], df)
    THEN moveDown([s EXCEPT ![j] = s[j - 1], ![j - 1] = s[j]], j - 1, df)
    ELSE s

RECURSIVE insertionSort(_, _, _)
insertionSort(s, i, df) ==
    IF i <= Len(s) THEN insertionSort(moveDown(s, i, df), i + 1, df) ELSE s

sortSlice(results, df) == insertionSort(results, 2, df)

\* truncate keeping the last topK results.
truncateLast(results, topK) ==
    IF Len(results) > topK
    THEN SubSeq(results, Len(results) - topK + 1, Len(results))
    ELSE results

\* search.go 101-103: the first topK results.
truncate(results, topK) ==
    IF Len(results) > topK THEN SubSeq(results, 1, topK) ELSE results

\* search.go 90-108: the scan is over; the results are sorted and cut.
rank(frame, df) ==
    [frame EXCEPT !.out =
        [err |-> NoErr,
         val |-> <<SearchResultOf("",
                      truncate(sortSlice(frame.results, df), frame.topK))>>]]

\* search.go 61-88: the range over db.vectors in the order given, from its
\* i-th key on, until it is exhausted or an iteration returns an error.
RECURSIVE scanFrom(_, _, _, _, _)
scanFrom(frame, store, order, i, df) ==
    IF i > Len(order) \/ frame.out.err # NoErr THEN frame
    ELSE scanFrom(scanVector(frame, store[order[i]], df), store, order, i + 1, df)

\* search.go 39-109: searchCore as a whole, on the store as it is while the
\* read lock is held, its keys ranged over in the order given.  What it
\* returns: [err, val], val holding the *SearchResult when it is not nil.
searchCore(store, df, query, topK, includeMetadata, filter, order) ==
    LET b == searchCoreBegin(query, topK, includeMetadata, filter)
    IN  IF b.err # NoErr THEN [err |-> b.err, val |-> <<>>]
        ELSE IF DOMAIN store = {} THEN emptyStoreResult(b.frame).out
        ELSE LET scanned == scanFrom(b.frame, store, order, 1, df)
             IN  IF scanned.out.err # NoErr THEN scanned.out
                 ELSE rank(scanned, df).out

\* The arrangements of the keys in rest that can follow the keys in order,
\* such that no result is less than the one met just before it: the ranges
\* whose results sort.Slice leaves in the order met.  after[k] is the frame
\* once the loop body has run for the key k alone.  A key that another of
\* rest is less than cannot come before it when no score left is NaN (less
\* is then transitive), and is not tried.
RECURSIVE sortedRanges(_, _, _, _)
sortedRanges(after, rest, order, df) ==
    IF rest = {} THEN {order}
    ELSE LET anyNaN == \E r \in rest : IsNaN(after[r].results[1].Score)
         IN  UNION {sortedRanges(after, rest \ {k}, Append(order, k), df) :
                     k \in {j \in rest :
                              /\ \/ order = <<>>
                                 \/ ~less(after[j].results[1],
                                          after[order[Len(order)]].results[1], df)
                              /\ \/ anyNaN
                                 \/ \A r \in rest :
                                       ~less(after[r].results[1],
                                             after[j].results[1], df)}}

\* search.go 61-98: the orders of the range over db.vectors that searchCore
\* is run on.  A store of up to FullOrderKeys keys is ranged over in every
\* order.  For a larger store one order is taken for every value searchCore
\* can return, the n! orders giving no other value:
\*   - the range is not reached when the query is refused;
\*   - when the loop body returns an error for some keys, searchCore returns
\*     the error of the one of them that is met first, which can be any of
\*     them: one order for each, that key first;
\*   - otherwise the keys that are skipped leave no trace, and the value
\*     returned is the results in the order met, sorted and cut.  The sort
\*     returns the results so that none is less than the one before it, and
\*     leaves results met in such an order as they are: one order for every
\*     such arrangement of the keys that give a result, the skipped keys
\*     first.
ScanOrders(store, df, query, filter) ==
    LET keys == DOMAIN store
        b == searchCoreBegin(query, 0, TRUE, filter)
    IN  IF Cardinality(keys) <= FullOrderKeys THEN RangeOrders(keys)
        ELSE IF b.err # NoErr THEN {SortedKeys(keys)}
        ELSE LET after == [k \in keys |-> scanVector(b.frame, store[k], df)]
                 failing == {k \in keys : after[k].out.err # NoErr}
                 kept == {k \in keys : after[k].results # <<>>}
             IN  IF failing # {}
                 THEN {<<k>> \o SortedKeys(keys \ {k}) : k \in failing}
                 ELSE {SortedKeys(keys \ kept) \o order :
                          order \in sortedRanges(after, kept, <<>>, df)}

\* search.go 12-15: the variadic topK of Search and BatchSearch.
topKOrDefault(topK) == IF Len(topK) > 0 THEN topK[1] ELSE DefaultTopK

\* ------------------------------------------------- operations, run as a whole
\* Each operation below is the whole handler, from its call to its return:
\* p goes from "idle" to "return" with its result in ret[p].  These are the
\* operations that hold db.mu from their first read or write of the store to
\* their return; BatchSearch, which takes and releases it for every query,
\* is among the operations run step by step.

\* search.go 11-17
Search(p, query, topK) ==
    /\ pc[p] = "idle"
    /\ Unlocked
    /\ \E order \in ScanOrders(vectors, distFunc, query, NilFilter) :
          LET out == searchCore(vectors, distFunc, query, topKOrDefault(topK),
                                TRUE, NilFilter, order)
          IN  Returns(p, out.err, out.val)
    /\ call' = [call EXCEPT ![p] = [op |-> "Search", query |-> query,
                                    topK |-> topK, filter |-> NilFilter,
                                    again |-> FALSE, first |-> NoRet]]
    /\ UNCHANGED <<db, mu, sc, batch>>
    /\ UNCHANGED heap

\* The caller makes the Search call it has just made once more, with the
\* same arguments, and keeps what the first call returned.
SearchAgain(p) ==
    /\ pc[p] = "return"
    /\ call[p].op = "Search"
    /\ ~call[p].again
    /\ Unlocked
    /\ \E order \in ScanOrders(vectors, distFunc, call[p].query, NilFilter) :
          LET out == searchCore(vectors, distFunc, call[p].query,
                                topKOrDefault(call[p].topK), TRUE, NilFilter,
                                order)
          IN  Returns(p, out.err, out.val)
    /\ call' = [call EXCEPT ![p].again = TRUE, ![p].first = ret[p]]
    /\ UNCHANGED <<db, mu, sc, batch>>
    /\ UNCHANGED heap

\* A direct call of searchCore with a filter, as code of package lib can make.
SearchFiltered(p, query, topK, filter) ==
    /\ pc[p] = "idle"
    /\ Unlocked
    /\ \E order \in ScanOrders(vectors, distFunc, query, filter) :
          LET out == searchCore(vectors, distFunc, query, topK, TRUE, filter,
                                order)
          IN  Returns(p, out.err, out.val)
    /\ call' = [call EXCEPT ![p] = [op |-> "searchCore", query |-> query,
                                    topK |-> <<topK>>, filter |-> filter,
                                    again |-> FALSE, first |-> NoRet]]
    /\ UNCHANGED <<db, mu, sc, batch>>
    /\ UNCHANGED heap

\* types.go 290-310: the Vector that Add and BatchAdd store when no metadata
\* is given.  Data is a []interface{}: ElemType is the type of the values its
\* elements hold, those copied from the converted slice (types.go 296), and
\* Type the field written next to it.
NewVector(id, conv) ==
    [ID |-> id, Data |-> conv.slice, ElemType |-> conv.type,
     Type |-> conv.type, Metadata |-> NoMetadata]

\* types.go 269-285: what Add's checks return; NoErr when they pass.
addError(id, data, dim) ==
    LET conv == convertToInterfaceSlice(data)
    IN  IF id = EmptyID THEN Error("EmptyID", "", 0, 0)
        ELSE IF conv.err THEN Error("UnsupportedType", "", 0, 0)
        ELSE IF Len(conv.slice) = 0 THEN Error("EmptyData", "", 0, 0)
        ELSE IF dim > 0 /\ Len(conv.slice) # dim
        THEN Error("DimensionMismatch", "", Len(conv.slice), dim)
        ELSE NoErr

\* types.go 290-312: the store after Add's write.
addWrite(store, id, data) ==
    MapPut(store, id, NewVector(id, convertToInterfaceSlice(data)))

\* types.go 269-313
Add(p, id, data) ==
    /\ pc[p] = "idle"
    /\ Unlocked
    /\ call' = [call EXCEPT ![p] = [op |-> "Add", id |-> id, data |-> data]]
    /\ LET err == addError(id, data, dimension)
       IN  /\ Returns(p, err, <<>>)
           /\ vectors' = IF err # NoErr THEN vectors
                         ELSE addWrite(vectors, id, data)
    /\ UNCHANGED <<dimension, distFunc, mu, sc, batch>>
    /\ UNCHANGED heap

\* types.go 269-313, called with a VectorMetadata whose Tags is a map the
\* caller has just made: the map is allocated at a new reference, and the
\* stored vector's Metadata is the struct given (types.go 303-306), Tags
\* holding that same reference.
AddWithMetadata(p, id, data, tags) ==
    /\ pc[p] = "idle"
    /\ Unlocked
    /\ Cardinality(DOMAIN heap) < MaxTagMaps
    /\ LET m == Cardinality(DOMAIN heap) + 1
           metadata == [Tags |-> m, Score |-> 0]
           err == addError(id, data, dimension)
       IN  /\ heap' = MapPut(heap, m, tags)
           /\ call' = [call EXCEPT ![p] = [op |-> "Add", id |-> id,
                                           data |-> data, metadata |-> metadata]]
           /\ Returns(p, err, <<>>)
           /\ vectors' = IF err # NoErr THEN vectors
                         ELSE [addWrite(vectors, id, data)
                                  EXCEPT ![id].Metadata = metadata]
    /\ UNCHANGED <<dimension, distFunc, mu, sc, batch>>

\* The caller makes a map[string]string with the entries given, to hand in
\* as the Tags of a VectorMetadata: the map is allocated at a new reference.
MakeTags(p, tags) ==
    /\ pc[p] = "idle"
    /\ Cardinality(DOMAIN heap) < MaxTagMaps
    /\ heap' = MapPut(heap, Cardinality(DOMAIN heap) + 1, tags)
    /\ UNCHANGED <<db, mu, pc, call, sc, batch, ret>>

\* updateError without the check of the length against db.dimension.
updateErrorNoDimension(id, data, dim) ==
    LET conv == convertToInterfaceSlice(data)
    IN  IF id = EmptyID THEN Error("EmptyID", "", 0, 0)
        ELSE IF conv.err THEN Error("UnsupportedType", "", 0, 0)
        ELSE NoErr

\* types.go 337-349: what Update's checks return; there is no check for
\* empty data.
updateError(id, data, dim) ==
    LET conv == convertToInterfaceSlice(data)
    IN  IF id = EmptyID THEN Error("EmptyID", "", 0, 0)
        ELSE IF conv.err THEN Error("UnsupportedType", "", 0, 0)
        ELSE IF dim > 0 /\ Len(conv.slice) # dim
        THEN Error("DimensionMismatch", "", Len(conv.slice), dim)
        ELSE NoErr

\* updateWriteType leaving the Type of the stored vector as it was.
updateKeepType(store, id, data) == store

\* types.go 360-361 and 362: the writes of Update to Data and Type of the
\* stored vector.
updateWriteData(store, id, data) ==
    [store EXCEPT ![id].Data = convertToInterfaceSlice(data).slice,
                  ![id].ElemType = convertToInterfaceSlice(data).type]
updateWriteType(store, id, data) ==
    [store EXCEPT ![id].Type = convertToInterfaceSlice(data).type]

\* types.go 365-371: the write of Update to the Metadata of the stored
\* vector.  metadata is the variadic argument: when it is not empty its first
\* element replaces the stored Metadata, Tags with it; UpdatedAt, set in
\* both branches, is not part of the model.
updateWriteMetadata(store, id, metadata) ==
    IF Len(metadata) > 0
    THEN [store EXCEPT ![id].Metadata = metadata[1]]
    ELSE store

\* The VectorMetadata values a caller can hand in: Tags nil or a map that
\* exists, Score 0 or 1.
MetadataArgs ==
    {[Tags |-> tags, Score |-> score] :
        tags \in {NilTags} \cup DOMAIN heap, score \in {0, 1}}

\* types.go 337-374
Update(p, id, data, metadata) ==
    /\ pc[p] = "idle"
    /\ Unlocked
    /\ call' = [call EXCEPT ![p] = [op |-> "Update", id |-> id, data |-> data,
                                    metadata |-> metadata]]
    /\ LET err == updateError(id, data, dimension)
       IN  IF err # NoErr
           THEN Returns(p, err, <<>>) /\ UNCHANGED vectors
           ELSE IF id \notin DOMAIN vectors
           THEN Returns(p, Error("NotFound", id, 0, 0), <<>>) /\ UNCHANGED vectors
           ELSE /\ Returns(p, NoErr, <<>>)
                /\ vectors' = updateWriteMetadata(
                                  updateWriteType(
                                      updateWriteData(vectors, id, data),
                                      id, data),
                                  id, metadata)
    /\ UNCHANGED <<dimension, distFunc, mu, sc, batch>>
    /\ UNCHANGED heap

\* types.go 377-387
Delete(p, id) ==
    /\ pc[p] = "idle"
    /\ Unlocked
    /\ call' = [call EXCEPT ![p] = [op |-> "Delete", id |-> id]]
    /\ IF id \notin DOMAIN vectors
       THEN Returns(p, Error("NotFound", id, 0, 0), <<>>) /\ UNCHANGED vectors
       ELSE Returns(p, NoErr, <<>>) /\ vectors' = MapDelete(vectors, id)
    /\ UNCHANGED <<dimension, distFunc, mu, sc, batch>>
    /\ UNCHANGED heap

\* types.go 397-401
Clear(p) ==
    /\ pc[p] = "idle"
    /\ Unlocked
    /\ call' = [call EXCEPT ![p] = [op |-> "Clear"]]
    /\ Returns(p, NoErr, <<>>)
    /\ vectors' = EmptyMap
    /\ UNCHANGED <<dimension, distFunc, mu, sc, batch>>
    /\ UNCHANGED heap

\* batchEntryError without the check of the length against db.dimension.
batchEntryErrorNoDimension(id, data, dim) ==
    LET conv == convertToInterfaceSlice(data)
    IN  IF id = EmptyID THEN Error("EmptyID", "", 0, 0)
        ELSE IF conv.err THEN Error("UnsupportedType", id, 0, 0)
        ELSE NoErr

\* types.go 411-424: the check of one entry of a batch; NoErr when it passes.
batchEntryError(id, data, dim) ==
    LET conv == convertToInterfaceSlice(data)
    IN  IF id = EmptyID THEN Error("EmptyID", "", 0, 0)
        ELSE IF conv.err THEN Error("UnsupportedType", id, 0, 0)
        ELSE IF dim > 0 /\ Len(conv.slice) # dim
        THEN Error("DimensionMismatch", id, Len(conv.slice), dim)
        ELSE NoErr

\* types.go 406-424: the errors BatchAdd's checks can return.  The map is
\* ranged over in any order, so the error is that of any entry that fails;
\* the set is empty when every entry passes.
batchAddErrors(batchVectors, dim) ==
    IF DOMAIN batchVectors = {} THEN {Error("NoVectors", "", 0, 0)}
    ELSE {batchEntryError(id, batchVectors[id], dim) : id \in DOMAIN batchVectors}
             \ {NoErr}

\* types.go 431-450: the Vector that the second range over the batch stores
\* for the entry id.  metadata is the map handed to BatchAdd (the empty map
\* for nil): the entry's Metadata is metadata[id] when the map has that key.
batchAddVector(id, data, metadata) ==
    IF id \in DOMAIN metadata
    THEN [NewVector(id, convertToInterfaceSlice(data))
             EXCEPT !.Metadata = metadata[id]]
    ELSE NewVector(id, convertToInterfaceSlice(data))

\* types.go 430-453: the store after the second range over the batch; every
\* entry is written under its own key, so the order does not show.
batchAddWrite(store, batchVectors, metadata) ==
    [i \in DOMAIN store \cup DOMAIN batchVectors |->
        IF i \in DOMAIN batchVectors
        THEN batchAddVector(i, batchVectors[i], metadata)
        ELSE store[i]]

\* types.go 405-456
BatchAdd(p, batchVectors, metadata) ==
    /\ pc[p] = "idle"
    /\ Unlocked
    /\ call' = [call EXCEPT ![p] = [op |-> "BatchAdd", vectors |-> batchVectors,
                                    metadata |-> metadata]]
    /\ LET errs == batchAddErrors(batchVectors, dimension)
       IN  IF errs # {}
           THEN /\ \E err \in errs : Returns(p, err, <<>>)
                /\ UNCHANGED vectors
           ELSE /\ Returns(p, NoErr, <<>>)
                /\ vectors' = batchAddWrite(vectors, batchVectors, metadata)
    /\ UNCHANGED <<dimension, distFunc, mu, sc, batch>>
    /\ UNCHANGED heap

\* types.go 320-333: what Get returns for the store as it is: the not-found
\* error, or a new Vector with the stored ID and Type and a copy of the Data.
getResult(store, id) ==
    IF id \notin DOMAIN store
    THEN [err |-> Error("NotFound", id, 0, 0), val |-> <<>>]
    ELSE [err |-> NoErr,
          val |-> <<[ID |-> store[id].ID,
                     Data |-> store[id].Data,
                     ElemType |-> store[id].ElemType,
                     Type |-> store[id].Type,
                     Metadata |-> store[id].Metadata]>>]

\* types.go 316-334
Get(p, id) ==
    /\ pc[p] = "idle"
    /\ Unlocked
    /\ call' = [call EXCEPT ![p] = [op |-> "Get", id |-> id]]
    /\ Returns(p, getResult(vectors, id).err, getResult(vectors, id).val)
    /\ UNCHANGED <<db, mu, sc, batch>>
    /\ UNCHANGED heap

\* What a caller reads in a *Vector it holds: its fields, and through Tags
\* the entries of the map referred to.
View(v) ==
    [ID |-> v.ID, Type |-> v.Type, Data |-> v.Data, Score |-> v.Metadata.Score,
     Tags |-> IF v.Metadata.Tags = NilTags THEN EmptyMap
              ELSE heap[v.Metadata.Tags]]

\* The caller has a *Vector from Get that a second Get has not replaced.
HoldsVector(p) ==
    /\ pc[p] = "return"
    /\ call[p].op = "Get"
    /\ ret[p].err = NoErr
    /\ "again" \notin DOMAIN call[p]

\* call[p] once the caller has written to the *Vector it holds: seen is what
\* it read in it before its first write.
Modified(p) ==
    [op |-> "Get", id |-> call[p].id,
     seen |-> IF "seen" \in DOMAIN call[p] THEN call[p].seen
              ELSE View(ret[p].val[1])]

\* The caller of Get writes to an element of the Data of the *Vector it got:
\* v.Data[0] = x.  Data is the slice made at types.go 328.
ModifyReturnedData(p) ==
    /\ HoldsVector(p)
    /\ Len(ret[p].val[1].Data) > 0
    /\ ret' = [ret EXCEPT ![p].val[1].Data[1] = (@ + 1) % (MaxVal + 1)]
    /\ call' = [call EXCEPT ![p] = Modified(p)]
    /\ UNCHANGED <<db, mu, pc, sc, batch, heap>>

\* The caller writes to a field of the Metadata of the *Vector it got:
\* v.Metadata.Score = 1.  Metadata is the struct copied at types.go 330.
ModifyReturnedScore(p) ==
    /\ HoldsVector(p)
    /\ ret' = [ret EXCEPT ![p].val[1].Metadata.Score = 1]
    /\ call' = [call EXCEPT ![p] = Modified(p)]
    /\ UNCHANGED <<db, mu, pc, sc, batch, heap>>

\* The caller writes an entry of the Tags of the *Vector it got:
\* v.Metadata.Tags[key] = value.  The write goes to the map Tags refers to.
ModifyReturnedTags(p, key, value) ==
    /\ HoldsVector(p)
    /\ ret[p].val[1].Metadata.Tags # NilTags
    /\ heap' = [heap EXCEPT ![ret[p].val[1].Metadata.Tags] =
                   [k \in DOMAIN @ \cup {key} |-> IF k = key THEN value ELSE @[k]]]
    /\ call' = [call EXCEPT ![p] = Modified(p)]
    /\ UNCHANGED <<db, mu, pc, sc, batch, ret>>

\* types.go 316-334: the caller, having written to the *Vector it got, calls
\* Get with the same id once more.
GetAgain(p) ==
    /\ HoldsVector(p)
    /\ "seen" \in DOMAIN call[p]
    /\ Unlocked
    /\ ret' = [ret EXCEPT ![p] = getResult(vectors, call[p].id)]
    /\ call' = [call EXCEPT ![p] =
                   [op |-> "Get", id |-> call[p].id, seen |-> call[p].seen,
                    again |-> TRUE]]
    /\ UNCHANGED <<db, mu, pc, sc, batch, heap>>

\* types.go 390-394
Size(p) ==
    /\ pc[p] = "idle"
    /\ Unlocked
    /\ call' = [call EXCEPT ![p] = [op |-> "Size"]]
    /\ Returns(p, NoErr, <<Cardinality(DOMAIN vectors)>>)
    /\ UNCHANGED <<db, mu, sc, batch>>
    /\ UNCHANGED heap

\* stats.go 12-33: the loop over db.vectors, as a fold over the keys left:
\* the sums of the lengths, of the estimated bytes and the counts per type.
RECURSIVE statsLoop(_, _, _)
statsLoop(store, keys, acc) ==
    IF keys = {} THEN acc
    ELSE LET id == CHOOSE k \in keys : TRUE
             n == Len(store[id].Data)
             typeSize == IF store[id].Type = Float32 THEN 4
                         ELSE IF store[id].Type = Float64 THEN 8 ELSE 0
         IN  statsLoop(store, keys \ {id},
                 [totalDimensions |-> acc.totalDimensions + n,
                  memoryUsage |-> acc.memoryUsage + 16 * n + typeSize * n + 256,
                  float32Count |-> acc.float32Count
                                      + IF store[id].Type = Float32 THEN 1 ELSE 0,
                  float64Count |-> acc.float64Count
                                      + IF store[id].Type = Float64 THEN 1 ELSE 0])

\* stats.go 4-50: the map GetStats returns; avg_dimensions in fixed point.
getStats(store, df, dim) ==
    LET totalVectors == Cardinality(DOMAIN store)
        sums == statsLoop(store, DOMAIN store,
                    [totalDimensions |-> 0, memoryUsage |-> 0,
                     float32Count |-> 0, float64Count |-> 0])
    IN  [total_vectors |-> totalVectors,
         total_dimensions |-> sums.totalDimensions,
         avg_dimensions |-> IF totalVectors > 0
                            THEN (sums.totalDimensions * Scale) \div totalVectors
                            ELSE 0,
         memory_usage_kb |-> sums.memoryUsage \div 1024,
         float32_count |-> sums.float32Count,
         float64_count |-> sums.float64Count,
         distance_function |-> df,
         dimension |-> dim]

\* stats.go 4-50
GetStats(p) ==
    /\ pc[p] = "idle"
    /\ Unlocked
    /\ call' = [call EXCEPT ![p] = [op |-> "GetStats"]]
    /\ Returns(p, NoErr, <<getStats(vectors, distFunc, dimension)>>)
    /\ UNCHANGED <<db, mu, sc, batch>>
    /\ UNCHANGED heap

\* The caller has its result and is free to make its next call.
Return(p) ==
    /\ pc[p] = "return"
    /\ pc' = [pc EXCEPT ![p] = "idle"]
    /\ call' = [call EXCEPT ![p] = NoCall]
    /\ batch' = [batch EXCEPT ![p] = NoBatch]
    /\ ret' = [ret EXCEPT ![p] = NoRet]
    /\ UNCHANGED <<db, mu, sc>>
    /\ UNCHANGED heap

\* ---------------------------------------------- operations, step by step
\* The same operations as above, each cut at the points where it takes or
\* releases db.mu, between the iterations of its loops and between its
\* writes to a stored vector, so that the steps of concurrent callers
\* interleave.

\* searchCore called by p (search.go 40-50): it fails at once or goes on to
\* take the read lock.
searchCoreCall(p, query, topK, includeMetadata, filter) ==
    LET b == searchCoreBegin(query, topK, includeMetadata, filter)
    IN  IF b.err # NoErr
        THEN /\ Returns(p, IF call'[p].op = "BatchSearch"
                           THEN SearchFailed(batch'[p].key, b.err) ELSE b.err,
                        <<>>)
             /\ UNCHANGED sc
        ELSE /\ sc' = [sc EXCEPT ![p] = b.frame]
             /\ Goto(p, "rlock")
             /\ UNCHANGED ret

\* search.go 52 without the lock: the scan starts whoever holds db.mu.
searchCoreNoRLock(p) ==
    /\ pc[p] = "rlock"
    /\ IF DOMAIN vectors = {}
       THEN /\ sc' = [sc EXCEPT ![p] = emptyStoreResult(@)]
            /\ Goto(p, "runlock")
       ELSE /\ sc' = sc
            /\ Goto(p, "scan")
    /\ UNCHANGED <<db, mu, call, batch, ret>>
    /\ UNCHANGED heap

\* search.go 52-57: the read lock is taken; an empty store is answered at
\* once.
searchCoreRLock(p) ==
    /\ pc[p] = "rlock"
    /\ RLock(p)
    /\ IF DOMAIN vectors = {}
       THEN /\ sc' = [sc EXCEPT ![p] = emptyStoreResult(@)]
            /\ Goto(p, "runlock")
       ELSE /\ sc' = sc
            /\ Goto(p, "scan")
    /\ UNCHANGED <<db, call, batch, ret>>
    /\ UNCHANGED heap

\* Some other caller is between the first and the last write of a mutation:
\* a read or a write of db.vectors made now is not ordered with those writes.
\* Such an access is a data race, which the runtime may abort the process for
\* (concurrent map read and map write, concurrent map writes) or let through.
Racing(p) == \E w \in Procs \ {p} : pc[w] \in {"write", "write2"}

\* search.go 61-88: one iteration of the range over db.vectors, at any key
\* not ranged over yet.
searchCoreScan(p) ==
    /\ pc[p] = "scan"
    /\ \/ \E id \in DOMAIN vectors \ sc[p].visited :
             LET after == scanVector(sc[p], vectors[id], distFunc)
             IN  /\ sc' = [sc EXCEPT ![p] = after]
                 /\ IF after.out.err # NoErr
                    THEN Goto(p, "runlock")
                    ELSE UNCHANGED pc
       \/ Racing(p) /\ Goto(p, "panic") /\ UNCHANGED sc
    /\ UNCHANGED <<db, mu, call, batch, ret>>
    /\ UNCHANGED heap

\* search.go 90-108: the range is exhausted.
searchCoreRank(p) ==
    /\ pc[p] = "scan"
    /\ DOMAIN vectors \subseteq sc[p].visited
    /\ sc' = [sc EXCEPT ![p] = rank(@, distFunc)]
    /\ Goto(p, "runlock")
    /\ UNCHANGED <<db, mu, call, batch, ret>>
    /\ UNCHANGED heap

\* searchCoreRUnlock with BatchSearch going on to its next query when one
\* fails.
searchCoreRUnlockPartial(p) ==
    /\ pc[p] = "runlock"
    /\ RUnlock(p)
    /\ sc' = [sc EXCEPT ![p] = NoFrame]
    /\ LET out == sc[p].out
       IN  IF out.err = Panic
           THEN Returns(p, Panic, <<>>) /\ UNCHANGED batch
           ELSE IF call[p].op = "BatchSearch"
           THEN /\ batch' = [batch EXCEPT ![p].results =
                       IF out.err # NoErr THEN @
                       ELSE MapPut(@, batch[p].key,
                                [out.val[1] EXCEPT !.QueryID = batch[p].key])]
                /\ Goto(p, "batch")
                /\ UNCHANGED ret
           ELSE /\ Returns(p, out.err, out.val)
                /\ UNCHANGED batch
    /\ UNCHANGED <<db, call>>
    /\ UNCHANGED heap

\* search.go 53: the deferred RUnlock, and the caller's code after the call:
\* Search returns what searchCore returned (search.go 16); BatchSearch
\* (search.go 29-33) returns the wrapped error, or stores the tagged result
\* and goes on with its loop.  A panic of the scan runs the deferred RUnlock
\* and goes on through the callers.
searchCoreRUnlock(p) ==
    /\ pc[p] = "runlock"
    /\ RUnlock(p)
    /\ sc' = [sc EXCEPT ![p] = NoFrame]
    /\ LET out == sc[p].out
       IN  IF out.err = Panic
           THEN Returns(p, Panic, <<>>) /\ UNCHANGED batch
           ELSE IF call[p].op = "BatchSearch"
           THEN IF out.err # NoErr
                THEN /\ Returns(p, SearchFailed(batch[p].key, out.err), <<>>)
                     /\ UNCHANGED batch
                ELSE /\ batch' = [batch EXCEPT ![p].results =
                            MapPut(@, batch[p].key,
                                   [out.val[1] EXCEPT !.QueryID = batch[p].key])]
                     /\ Goto(p, "batch")
                     /\ UNCHANGED ret
           ELSE /\ Returns(p, out.err, out.val)
                /\ UNCHANGED batch
    /\ UNCHANGED <<db, call>>
    /\ UNCHANGED heap

\* search.go 11-16
SearchCall(p, query, topK) ==
    /\ pc[p] = "idle"
    /\ call' = [call EXCEPT ![p] = [op |-> "Search", query |-> query,
                                    topK |-> topK, filter |-> NilFilter,
                                    again |-> FALSE, first |-> NoRet]]
    /\ searchCoreCall(p, query, topKOrDefault(topK), TRUE, NilFilter)
    /\ UNCHANGED <<db, mu, batch>>
    /\ UNCHANGED heap

\* search.go 20-26
BatchSearchCall(p, queries, topK) ==
    /\ pc[p] = "idle"
    /\ call' = [call EXCEPT ![p] = [op |-> "BatchSearch", queries |-> queries,
                                    topK |-> topK]]
    /\ batch' = [batch EXCEPT ![p] =
                    [pending |-> DOMAIN queries, key |-> "",
                     results |-> EmptyMap]]
    /\ Goto(p, "batch")
    /\ UNCHANGED <<db, mu, sc, ret>>
    /\ UNCHANGED heap

\* search.go 27-28 and 35: the loop goes to a query not answered yet, in any
\* order of the map, or BatchSearch returns the results.
BatchSearchNext(p) ==
    /\ pc[p] = "batch"
    /\ UNCHANGED <<db, mu, call>>
    /\ UNCHANGED heap
    /\ IF batch[p].pending = {}
       THEN /\ Returns(p, NoErr, <<batch[p].results>>)
            /\ UNCHANGED <<sc, batch>>
       ELSE \E queryID \in batch[p].pending :
              /\ batch' = [batch EXCEPT ![p].pending = @ \ {queryID},
                                        ![p].key = queryID]
              /\ searchCoreCall(p, call[p].queries[queryID],
                                topKOrDefault(call[p].topK), TRUE, NilFilter)

\* types.go 269-288: Add up to its Lock.
AddCall(p, id, data) ==
    /\ pc[p] = "idle"
    /\ call' = [call EXCEPT ![p] = [op |-> "Add", id |-> id, data |-> data]]
    /\ LET err == addError(id, data, dimension)
       IN  IF err # NoErr THEN Returns(p, err, <<>>)
           ELSE Goto(p, "lock") /\ UNCHANGED ret
    /\ UNCHANGED <<db, mu, sc, batch>>
    /\ UNCHANGED heap

\* types.go 337-352: Update up to its Lock.
UpdateCall(p, id, data, metadata) ==
    /\ pc[p] = "idle"
    /\ call' = [call EXCEPT ![p] = [op |-> "Update", id |-> id, data |-> data,
                                    metadata |-> metadata]]
    /\ LET err == updateError(id, data, dimension)
       IN  IF err # NoErr THEN Returns(p, err, <<>>)
           ELSE Goto(p, "lock") /\ UNCHANGED ret
    /\ UNCHANGED <<db, mu, sc, batch>>
    /\ UNCHANGED heap

\* types.go 377-378: Delete up to its Lock.
DeleteCall(p, id) ==
    /\ pc[p] = "idle"
    /\ call' = [call EXCEPT ![p] = [op |-> "Delete", id |-> id]]
    /\ Goto(p, "lock")
    /\ UNCHANGED <<db, mu, sc, batch, ret>>
    /\ UNCHANGED heap

\* types.go 397-398: Clear up to its Lock.
ClearCall(p) ==
    /\ pc[p] = "idle"
    /\ call' = [call EXCEPT ![p] = [op |-> "Clear"]]
    /\ Goto(p, "lock")
    /\ UNCHANGED <<db, mu, sc, batch, ret>>
    /\ UNCHANGED heap

\* types.go 405-427: BatchAdd up to its Lock.
BatchAddCall(p, batchVectors, metadata) ==
    /\ pc[p] = "idle"
    /\ call' = [call EXCEPT ![p] = [op |-> "BatchAdd", vectors |-> batchVectors,
                                    metadata |-> metadata]]
    /\ LET errs == batchAddErrors(batchVectors, dimension)
       IN  IF errs # {}
           THEN /\ \E err \in errs : Returns(p, err, <<>>)
                /\ UNCHANGED batch
           ELSE /\ batch' = [batch EXCEPT ![p].pending = DOMAIN batchVectors]
                /\ Goto(p, "lock")
                /\ UNCHANGED ret
    /\ UNCHANGED <<db, mu, sc>>
    /\ UNCHANGED heap

\* A writer that starts its mutation without db.mu.Lock().
WriterNoLock(p) ==
    /\ pc[p] = "lock"
    /\ Goto(p, "write")
    /\ UNCHANGED <<db, mu, call, sc, batch, ret>>
    /\ UNCHANGED heap

\* db.mu.Lock() of Add, Update, Delete, Clear and BatchAdd.
WriterLock(p) ==
    /\ pc[p] = "lock"
    /\ Lock(p)
    /\ Goto(p, "write")
    /\ UNCHANGED <<db, call, sc, batch, ret>>
    /\ UNCHANGED heap

\* types.go 290-312: the write of Add to the map.  Like the other steps that
\* look up, range over or write the map db.vectors, it may abort the caller
\* when it races with another caller's writes.
AddWrite(p) ==
    /\ pc[p] = "write"
    /\ call[p].op = "Add"
    /\ \/ /\ vectors' = addWrite(vectors, call[p].id, call[p].data)
          /\ ret' = [ret EXCEPT ![p] = NoRet]
          /\ Goto(p, "unlock")
       \/ Racing(p) /\ Goto(p, "panic") /\ UNCHANGED <<vectors, ret>>
    /\ UNCHANGED <<dimension, distFunc, mu, call, sc, batch>>
    /\ UNCHANGED heap

\* types.go 354-361: the stored vector is looked up and its Data replaced.
UpdateWriteData(p) ==
    /\ pc[p] = "write"
    /\ call[p].op = "Update"
    /\ \/ IF call[p].id \notin DOMAIN vectors
          THEN /\ ret' = [ret EXCEPT ![p] =
                           [err |-> Error("NotFound", call[p].id, 0, 0),
                            val |-> <<>>]]
               /\ Goto(p, "unlock")
               /\ UNCHANGED vectors
          ELSE /\ vectors' = updateWriteData(vectors, call[p].id, call[p].data)
               /\ Goto(p, "write2")
               /\ UNCHANGED ret
       \/ Racing(p) /\ Goto(p, "panic") /\ UNCHANGED <<vectors, ret>>
    /\ UNCHANGED <<dimension, distFunc, mu, call, sc, batch>>
    /\ UNCHANGED heap

\* types.go 362-373: then its Type and its Metadata.
UpdateWriteType(p) ==
    /\ pc[p] = "write2"
    /\ vectors' = updateWriteMetadata(
                      updateWriteType(vectors, call[p].id, call[p].data),
                      call[p].id, call[p].metadata)
    /\ ret' = [ret EXCEPT ![p] = NoRet]
    /\ Goto(p, "unlock")
    /\ UNCHANGED <<dimension, distFunc, mu, call, sc, batch>>
    /\ UNCHANGED heap

\* types.go 381-386
DeleteWrite(p) ==
    /\ pc[p] = "write"
    /\ call[p].op = "Delete"
    /\ \/ /\ IF call[p].id \notin DOMAIN vectors
             THEN /\ ret' = [ret EXCEPT ![p] =
                              [err |-> Error("NotFound", call[p].id, 0, 0),
                               val |-> <<>>]]
                  /\ UNCHANGED vectors
             ELSE /\ vectors' = MapDelete(vectors, call[p].id)
                  /\ ret' = [ret EXCEPT ![p] = NoRet]
          /\ Goto(p, "unlock")
       \/ Racing(p) /\ Goto(p, "panic") /\ UNCHANGED <<vectors, ret>>
    /\ UNCHANGED <<dimension, distFunc, mu, call, sc, batch>>
    /\ UNCHANGED heap

\* types.go 400
ClearWrite(p) ==
    /\ pc[p] = "write"
    /\ call[p].op = "Clear"
    /\ vectors' = EmptyMap
    /\ ret' = [ret EXCEPT ![p] = NoRet]
    /\ Goto(p, "unlock")
    /\ UNCHANGED <<dimension, distFunc, mu, call, sc, batch>>
    /\ UNCHANGED heap

\* types.go 430-453: one iteration of the second range over the batch, at
\* any entry not written yet; the last one is followed by the return.
BatchAddWrite(p) ==
    /\ pc[p] = "write"
    /\ call[p].op = "BatchAdd"
    /\ \/ \E id \in batch[p].pending :
             /\ vectors' = MapPut(vectors, id,
                    batchAddVector(id, call[p].vectors[id], call[p].metadata))
             /\ batch' = [batch EXCEPT ![p].pending = @ \ {id}]
             /\ IF batch[p].pending = {id}
                THEN Goto(p, "unlock")
                ELSE UNCHANGED pc
       \/ Racing(p) /\ Goto(p, "panic") /\ UNCHANGED <<vectors, batch>>
    /\ ret' = [ret EXCEPT ![p] = NoRet]
    /\ UNCHANGED <<dimension, distFunc, mu, call, sc>>
    /\ UNCHANGED heap

\* The deferred db.mu.Unlock() of every writer, and its return.
WriterUnlock(p) ==
    /\ pc[p] = "unlock"
    /\ Unlock(p)
    /\ Goto(p, "return")
    /\ UNCHANGED <<db, call, sc, batch, ret>>
    /\ UNCHANGED heap

\* types.go 316-317, 390-391, stats.go 4-5: Get, Size and GetStats up to
\* their RLock.
GetCall(p, id) ==
    /\ pc[p] = "idle"
    /\ call' = [call EXCEPT ![p] = [op |-> "Get", id |-> id]]
    /\ Goto(p, "rdlock")
    /\ UNCHANGED <<db, mu, sc, batch, ret>>
    /\ UNCHANGED heap

SizeCall(p) ==
    /\ pc[p] = "idle"
    /\ call' = [call EXCEPT ![p] = [op |-> "Size"]]
    /\ Goto(p, "rdlock")
    /\ UNCHANGED <<db, mu, sc, batch, ret>>
    /\ UNCHANGED heap

GetStatsCall(p) ==
    /\ pc[p] = "idle"
    /\ call' = [call EXCEPT ![p] = [op |-> "GetStats"]]
    /\ Goto(p, "rdlock")
    /\ UNCHANGED <<db, mu, sc, batch, ret>>
    /\ UNCHANGED heap

\* db.mu.RLock() of Get, Size and GetStats.
ReaderRLock(p) ==
    /\ pc[p] = "rdlock"
    /\ RLock(p)
    /\ Goto(p, "read")
    /\ UNCHANGED <<db, call, sc, batch, ret>>
    /\ UNCHANGED heap

\* types.go 320-333: the lookup and the copy.
GetRead(p) ==
    /\ pc[p] = "read"
    /\ call[p].op = "Get"
    /\ \/ /\ ret' = [ret EXCEPT ![p] = getResult(vectors, call[p].id)]
          /\ Goto(p, "rdunlock")
       \/ Racing(p) /\ Goto(p, "panic") /\ UNCHANGED ret
    /\ UNCHANGED <<db, mu, call, sc, batch>>
    /\ UNCHANGED heap

\* types.go 393
SizeRead(p) ==
    /\ pc[p] = "read"
    /\ call[p].op = "Size"
    /\ \/ /\ ret' = [ret EXCEPT ![p] =
                        [err |-> NoErr, val |-> <<Cardinality(DOMAIN vectors)>>]]
          /\ Goto(p, "rdunlock")
       \/ Racing(p) /\ Goto(p, "panic") /\ UNCHANGED ret
    /\ UNCHANGED <<db, mu, call, sc, batch>>
    /\ UNCHANGED heap

\* stats.go 8-49
GetStatsRead(p) ==
    /\ pc[p] = "read"
    /\ call[p].op = "GetStats"
    /\ \/ /\ ret' = [ret EXCEPT ![p] =
                        [err |-> NoErr,
                         val |-> <<getStats(vectors, distFunc, dimension)>>]]
          /\ Goto(p, "rdunlock")
       \/ Racing(p) /\ Goto(p, "panic") /\ UNCHANGED ret
    /\ UNCHANGED <<db, mu, call, sc, batch>>
    /\ UNCHANGED heap

\* The deferred db.mu.RUnlock() of Get, Size and GetStats, and their return.
ReaderRUnlock(p) ==
    /\ pc[p] = "rdunlock"
    /\ RUnlock(p)
    /\ Goto(p, "return")
    /\ UNCHANGED <<db, call, sc, batch, ret>>
    /\ UNCHANGED heap

\* ------------------------------------------------------------ specifications
\* The maps handed to BatchAdd and BatchSearch: at most MaxBatch entries.
MapsOver(keys, values) ==
    UNION {[K -> values] : K \in {S \in SUBSET keys : Cardinality(S) <= MaxBatch}}

\* A sample of the Go values: one of each kind of outcome.
Ones(n) == [i \in 1..n |-> 1]
SampleValues ==
    {[kind |-> GoOther, elems |-> <<>>],
     [kind |-> GoFloat64s, elems |-> <<>>],
     [kind |-> GoFloat64s, elems |-> Ones(1)],
     [kind |-> GoFloat64s, elems |-> Ones(MaxLen)],
     [kind |-> GoFloat32s, elems |-> Ones(MaxLen)]}

QueryIDs == {"q1", "q2"}
BatchAddArgs == MapsOver(IDs \cup {EmptyID}, SampleValues)

\* Spec: one caller, whose operations run one after the other; the store
\* operations and Search.
Next ==
    \/ \E query \in GoValues, topK \in {<<>>} \cup {<<k>> : k \in (-1)..MaxTopK} :
          Search(1, query, topK)
    \/ SearchAgain(1)
    \/ \E id \in IDs \cup {EmptyID}, data \in GoValues : Add(1, id, data)
    \/ \E id \in IDs \cup {EmptyID}, data \in GoValues : Update(1, id, data, <<>>)
    \/ \E id \in IDs : Delete(1, id)
    \/ Clear(1)
    \/ \E batchVectors \in BatchAddArgs : BatchAdd(1, batchVectors, EmptyMap)
    \/ Return(1)

Spec == Init /\ [][Next]_vars

\* NewVectorDB(dimension): the default metric.
InitDefault == Init /\ distFunc = CosineSimilarity

\* SpecFilter: one caller; searchCore called with a filter.
NextFilter ==
    \/ \E query \in GoValues, topK \in {0, MaxTopK}, accepts \in SUBSET IDs :
          SearchFiltered(1, query, topK, [nil |-> FALSE, accepts |-> accepts])
    \/ \E id \in IDs, data \in GoValues : Add(1, id, data)
    \/ \E id \in IDs, data \in GoValues : Update(1, id, data, <<>>)
    \/ \E id \in IDs : Delete(1, id)
    \/ Return(1)

SpecFilter == InitDefault /\ [][NextFilter]_vars

\* SpecBatch: one caller; BatchSearch step by step, each searchCore call
\* taking and releasing the read lock on its own.
NextBatch ==
    \/ \E queries \in MapsOver(QueryIDs, SampleValues), topK \in {<<>>, <<1>>} :
          BatchSearchCall(1, queries, topK)
    \/ BatchSearchNext(1)
    \/ searchCoreRLock(1)
    \/ searchCoreScan(1)
    \/ searchCoreRank(1)
    \/ searchCoreRUnlock(1)
    \/ \E id \in IDs, data \in GoValues : Add(1, id, data)
    \/ \E id \in IDs, data \in GoValues : Update(1, id, data, <<>>)
    \/ \E id \in IDs : Delete(1, id)
    \/ Return(1)

SpecBatch == InitDefault /\ [][NextBatch]_vars

\* SpecBulk: one caller fills a store of dimension 2 with BulkSize vectors,
\* the first of them float32 and the others float64, and searches it.  The
\* i-th vector is (i \div 2, 1): under every metric the vectors score in
\* pairs, two of a pair alike and two pairs differently, against the query
\* (1, 0).
BulkValue(i) ==
    [kind |-> IF i = 1 THEN GoFloat32s ELSE GoFloat64s,
     elems |-> <<i \div 2, 1>>]
InitBulk == Init /\ dimension = 2

\* The caller adds the next vector of the bulk store.
BulkAdd(p) ==
    \E i \in 1..BulkSize :
        /\ i = Cardinality(DOMAIN vectors) + 1
        /\ Add(p, IDNames[i], BulkValue(i))

NextBulk ==
    \/ BulkAdd(1)
    \/ \E kind \in {GoFloat32s, GoFloat64s},
          topK \in {<<>>, <<-1>>, <<0>>, <<1>>, <<DefaultTopK - 1>>,
                    <<DefaultTopK>>, <<DefaultTopK + 1>>, <<DefaultTopK + 2>>} :
          Search(1, [kind |-> kind, elems |-> <<1, 0>>], topK)
    \/ Return(1)

SpecBulk == InitBulk /\ [][NextBulk]_vars

\* SpecStore: one caller; the store operations with Get, Size and GetStats.
NextStore ==
    \/ \E id \in IDs \cup {EmptyID}, data \in GoValues : Add(1, id, data)
    \/ \E id \in IDs \cup {EmptyID}, data \in GoValues,
          metadata \in {<<>>, <<[Tags |-> NilTags, Score |-> 1]>>} :
          Update(1, id, data, metadata)
    \/ \E id \in IDs : Delete(1, id)
    \/ Clear(1)
    \/ \E batchVectors \in BatchAddArgs,
          metadata \in {EmptyMap, [id \in {"a"} |-> [Tags |-> NilTags, Score |-> 1]]} :
          BatchAdd(1, batchVectors, metadata)
    \/ \E id \in IDs \cup {EmptyID} : Get(1, id)
    \/ Size(1)
    \/ GetStats(1)
    \/ Return(1)

SpecStore == Init /\ [][NextStore]_vars

\* SpecConc: concurrent callers on a store without dimension check; caller 1
\* searches and reads while caller 2 writes, each operation step by step.
ConcValues ==
    {[kind |-> GoFloat64s, elems |-> <<0>>],
     [kind |-> GoFloat64s, elems |-> <<1>>],
     [kind |-> GoFloat32s, elems |-> <<1>>]}
ConcQueries == {[kind |-> GoFloat64s, elems |-> <<1>>]}
Searchers == {1}
Writers == Procs \ Searchers

InitConc == InitDefault /\ dimension = 0

NextConc ==
    \/ \E p \in Searchers, query \in ConcQueries, topK \in {<<>>, <<1>>} :
          SearchCall(p, query, topK)
    \/ \E p \in Searchers, queries \in MapsOver(QueryIDs, ConcQueries),
             topK \in {<<>>, <<1>>} :
          BatchSearchCall(p, queries, topK)
    \/ \E p \in Searchers : BatchSearchNext(p)
    \/ \E p \in Searchers : searchCoreRLock(p)
    \/ \E p \in Searchers : searchCoreScan(p)
    \/ \E p \in Searchers : searchCoreRank(p)
    \/ \E p \in Searchers : searchCoreRUnlock(p)
    \/ \E p \in Searchers, id \in IDs : GetCall(p, id)
    \/ \E p \in Searchers : SizeCall(p)
    \/ \E p \in Searchers : GetStatsCall(p)
    \/ \E p \in Searchers : ReaderRLock(p)
    \/ \E p \in Searchers : GetRead(p)
    \/ \E p \in Searchers : SizeRead(p)
    \/ \E p \in Searchers : GetStatsRead(p)
    \/ \E p \in Searchers : ReaderRUnlock(p)
    \/ \E p \in Writers, id \in IDs, data \in ConcValues : AddCall(p, id, data)
    \/ \E p \in Writers, id \in IDs, data \in ConcValues :
          UpdateCall(p, id, data, <<>>)
    \/ \E p \in Writers, id \in IDs : DeleteCall(p, id)
    \/ \E p \in Writers : ClearCall(p)
    \/ \E p \in Writers, batchVectors \in MapsOver(IDs, ConcQueries) :
          BatchAddCall(p, batchVectors, EmptyMap)
    \/ \E p \in Writers : WriterLock(p)
    \/ \E p \in Writers : AddWrite(p)
    \/ \E p \in Writers : UpdateWriteData(p)
    \/ \E p \in Writers : UpdateWriteType(p)
    \/ \E p \in Writers : DeleteWrite(p)
    \/ \E p \in Writers : ClearWrite(p)
    \/ \E p \in Writers : BatchAddWrite(p)
    \/ \E p \in Writers : WriterUnlock(p)
    \/ \E p \in Procs : Return(p)

SpecConc == InitConc /\ [][NextConc]_vars

\* SpecMetric: the metrics of distance.go called directly on two slices of one
\* element type, of every length up to MaxLen, equal or not, whose elements
\* are small integers of either sign, NaN and the two infinities.
MetricSlices == SeqsUpTo((-MaxVal..MaxVal) \cup {NaN, PosInf, NegInf}, MaxLen)

\* The slices dotProduct is called on: those, and for every length up to
\* MaxDotLen the unit vectors, the vector of ones and the vector 1, 2, .., n.
DotSlices ==
    MetricSlices
        \cup {[i \in 1..n |-> IF i = j THEN 1 ELSE 0] :
                 n \in 1..MaxDotLen, j \in 1..MaxDotLen}
        \cup {Ones(n) : n \in 0..MaxDotLen}
        \cup {[i \in 1..n |-> i] : n \in 0..MaxDotLen}

\* distance.go 6-38, 54-68, 71-89: p calls the metric on two slices a and b
\* of the type vecType and has its float64 result.
DotProductCall(p) ==
    /\ pc[p] = "idle"
    /\ \E a \in DotSlices, b \in DotSlices, vecType \in VectorTypes :
          /\ call' = [call EXCEPT ![p] = [op |-> "dotProduct", a |-> a, b |-> b,
                                          vecType |-> vecType]]
          /\ Returns(p, NoErr, <<dotProduct(a, b, vecType)>>)
    /\ UNCHANGED <<db, mu, sc, batch, heap>>

EuclideanDistanceCall(p) ==
    /\ pc[p] = "idle"
    /\ \E a \in MetricSlices, b \in MetricSlices, vecType \in VectorTypes :
          /\ call' = [call EXCEPT ![p] = [op |-> "euclideanDistance", a |-> a, b |-> b,
                                          vecType |-> vecType]]
          /\ Returns(p, NoErr, <<euclideanDistance(a, b, vecType)>>)
    /\ UNCHANGED <<db, mu, sc, batch, heap>>

ManhattanDistanceCall(p) ==
    /\ pc[p] = "idle"
    /\ \E a \in MetricSlices, b \in MetricSlices, vecType \in VectorTypes :
          /\ call' = [call EXCEPT ![p] = [op |-> "manhattanDistance", a |-> a, b |-> b,
                                          vecType |-> vecType]]
          /\ Returns(p, NoErr, <<manhattanDistance(a, b, vecType)>>)
    /\ UNCHANGED <<db, mu, sc, batch, heap>>

\* distance.go 41-51
CosineSimilarityCall(p) ==
    /\ pc[p] = "idle"
    /\ \E a \in MetricSlices, b \in MetricSlices, vecType \in VectorTypes :
          /\ call' = [call EXCEPT ![p] = [op |-> "cosineSimilarity", a |-> a,
                                          b |-> b, vecType |-> vecType]]
          /\ Returns(p, NoErr, <<cosineSimilarity(a, b, vecType)>>)
    /\ UNCHANGED <<db, mu, sc, batch, heap>>

NextMetric ==
    \/ DotProductCall(1)
    \/ CosineSimilarityCall(1)
    \/ EuclideanDistanceCall(1)
    \/ ManhattanDistanceCall(1)
    \/ Return(1)

SpecMetric == InitDefault /\ [][NextMetric]_vars

\* SpecAlias: one caller; vectors added and updated, one by one and in
\* batches, with and without metadata, and what the caller does with the
\* *Vector that Get returns.
NextAlias ==
    \/ \E id \in IDs, data \in ConcValues :
          AddWithMetadata(1, id, data, [key \in {"k"} |-> "v"])
    \/ \E tags \in {[key \in {"k"} |-> "x"]} : MakeTags(1, tags)
    \/ \E id \in IDs, data \in ConcValues : Add(1, id, data)
    \/ \E id \in IDs, data \in ConcValues,
          metadata \in {<<>>} \cup {<<m>> : m \in MetadataArgs} :
          Update(1, id, data, metadata)
    \/ \E batchVectors \in MapsOver(IDs, ConcQueries),
          metadata \in MapsOver(IDs, MetadataArgs) :
          BatchAdd(1, batchVectors, metadata)
    \/ \E id \in IDs : Delete(1, id)
    \/ \E id \in IDs : Get(1, id)
    \/ ModifyReturnedData(1)
    \/ ModifyReturnedScore(1)
    \/ \E value \in {"v", "x"} : ModifyReturnedTags(1, "k", value)
    \/ GetAgain(1)
    \/ Return(1)

SpecAlias == InitConc /\ [][NextAlias]_vars

\* SpecCosine: a store under CosineSimilarity without dimension check, holding
\* vectors of both types and of lengths 1..MaxLen whose elements are small
\* integers of either sign and +Inf; searches with topK = 1, and
\* cosineSimilarity called directly (it does not read the store: the calls
\* are explored on the empty one).
CosineValues ==
    {[kind |-> k, elems |-> e] :
        k \in {GoFloat32s, GoFloat64s},
        e \in SeqsUpTo((-MaxVal..MaxVal) \cup {PosInf}, MaxLen) \ {<<>>}}

NextCosine ==
    \/ \E id \in IDs, data \in CosineValues : Add(1, id, data)
    \/ \E id \in IDs : Delete(1, id)
    \/ \E query \in CosineValues : Search(1, query, <<1>>)
    \/ vectors = EmptyMap /\ CosineSimilarityCall(1)
    \/ Return(1)

SpecCosine == InitConc /\ [][NextCosine]_vars

\* SpecBatchAdd: on a store of any dimension, caller 2 adds batches, good and
\* bad, and deletes, while caller 1 reads with Get, Size and Search, each
\* operation step by step.
NextBatchAdd ==
    \/ \E p \in Writers, batchVectors \in BatchAddArgs,
             metadata \in {EmptyMap, [id \in {"a"} |-> [Tags |-> NilTags, Score |-> 1]]} :
          BatchAddCall(p, batchVectors, metadata)
    \/ \E p \in Writers, id \in IDs : DeleteCall(p, id)
    \/ \E p \in Writers : WriterLock(p)
    \/ \E p \in Writers : BatchAddWrite(p)
    \/ \E p \in Writers : DeleteWrite(p)
    \/ \E p \in Writers : WriterUnlock(p)
    \/ \E p \in Searchers, id \in IDs : GetCall(p, id)
    \/ \E p \in Searchers : SizeCall(p)
    \/ \E p \in Searchers : ReaderRLock(p)
    \/ \E p \in Searchers : GetRead(p)
    \/ \E p \in Searchers : SizeRead(p)
    \/ \E p \in Searchers : ReaderRUnlock(p)
    \/ \E p \in Searchers, query \in ConcQueries : SearchCall(p, query, <<1>>)
    \/ \E p \in Searchers : searchCoreRLock(p)
    \/ \E p \in Searchers : searchCoreScan(p)
    \/ \E p \in Searchers : searchCoreRank(p)
    \/ \E p \in Searchers : searchCoreRUnlock(p)
    \/ \E p \in Procs : Return(p)

SpecBatchAdd == InitDefault /\ [][NextBatchAdd]_vars

\* SpecRank: one caller; a store of any dimension, under each of the metrics,
\* of up to NumIDs + 1 vectors of one element: float64 vectors whose element
\* is a small integer, NaN or +Inf, and a float32 vector.  It is searched
\* with a float64 query, topK omitted or given.
NextRank ==
    \/ \E id \in {IDNames[i] : i \in 1..(NumIDs + 1)},
          data \in {[kind |-> GoFloat64s, elems |-> <<x>>] :
                       x \in (0..MaxVal) \cup {NaN, PosInf}}
                      \cup {[kind |-> GoFloat32s, elems |-> <<1>>]} :
          Add(1, id, data)
    \/ \E id \in {IDNames[i] : i \in 1..(NumIDs + 1)} : Delete(1, id)
    \/ \E topK \in {<<>>} \cup {<<k>> : k \in 1..MaxTopK} :
          Search(1, [kind |-> GoFloat64s, elems |-> <<1>>], topK)
    \/ Return(1)

SpecRank == Init /\ [][NextRank]_vars

\* SpecAbort: concurrent callers on a store of any dimension, each of them
\* making any of the public operations, step by step, with arguments of every
\* kind: IDs that are stored, not stored and empty; data and queries of an
\* unsupported type, empty, of either element type and of several lengths;
\* batches that are empty, valid and invalid; topK omitted and negative.
AbortValues ==
    {[kind |-> GoOther, elems |-> <<>>],
     [kind |-> GoFloat64s, elems |-> <<>>],
     [kind |-> GoFloat64s, elems |-> <<1>>],
     [kind |-> GoFloat32s, elems |-> <<1>>]}

NextAbort ==
    \/ \E p \in Procs, query \in AbortValues : SearchCall(p, query, <<-1>>)
    \/ \E p \in Procs,
          queries \in {EmptyMap,
                       [k \in {"q1"} |-> [kind |-> GoFloat64s, elems |-> <<1>>]],
                       [k \in QueryIDs |->
                           IF k = "q1" THEN [kind |-> GoFloat32s, elems |-> <<1>>]
                           ELSE [kind |-> GoOther, elems |-> <<>>]]} :
          BatchSearchCall(p, queries, <<>>)
    \/ \E p \in Procs : BatchSearchNext(p)
    \/ \E p \in Procs : searchCoreRLock(p)
    \/ \E p \in Procs : searchCoreScan(p)
    \/ \E p \in Procs : searchCoreRank(p)
    \/ \E p \in Procs : searchCoreRUnlock(p)
    \/ \E p \in Procs, id \in IDs : GetCall(p, id)
    \/ \E p \in Procs : SizeCall(p)
    \/ \E p \in Procs : GetStatsCall(p)
    \/ \E p \in Procs : ReaderRLock(p)
    \/ \E p \in Procs : GetRead(p)
    \/ \E p \in Procs : SizeRead(p)
    \/ \E p \in Procs : GetStatsRead(p)
    \/ \E p \in Procs : ReaderRUnlock(p)
    \/ \E p \in Procs, id \in IDs \cup {EmptyID}, data \in AbortValues :
          AddCall(p, id, data)
    \/ \E p \in Procs, id \in IDs \cup {EmptyID}, data \in AbortValues :
          UpdateCall(p, id, data, <<>>)
    \/ \E p \in Procs, id \in IDs \cup {EmptyID} : DeleteCall(p, id)
    \/ \E p \in Procs : ClearCall(p)
    \/ \E p \in Procs,
          batchVectors \in {EmptyMap,
                            [id \in {EmptyID} |-> [kind |-> GoFloat32s, elems |-> <<1>>]],
                            [id \in IDs |-> [kind |-> GoFloat32s, elems |-> <<1>>]],
                            [id \in IDs |->
                                IF id = "a" THEN [kind |-> GoOther, elems |-> <<>>]
                                ELSE [kind |-> GoFloat32s, elems |-> <<1>>]]} :
          BatchAddCall(p, batchVectors, EmptyMap)
    \/ \E p \in Procs : WriterLock(p)
    \/ \E p \in Procs : AddWrite(p)
    \/ \E p \in Procs : UpdateWriteData(p)
    \/ \E p \in Procs : UpdateWriteType(p)
    \/ \E p \in Procs : DeleteWrite(p)
    \/ \E p \in Procs : ClearWrite(p)
    \/ \E p \in Procs : BatchAddWrite(p)
    \/ \E p \in Procs : WriterUnlock(p)
    \/ \E p \in Procs : Return(p)

SpecAbort == InitDefault /\ [][NextAbort]_vars

\* ------------------------------------------------------------------- claims
\* Caller p has its result of the operation op.
Done(p, op) == pc[p] = "return" /\ call[p].op = op

\* The query is of a supported type and not empty.
ValidQuery(q) == q.kind \in {GoFloat32s, GoFloat64s} /\ Len(q.elems) > 0
QueryType(q) == IF q.kind = GoFloat32s THEN Float32 ELSE Float64

\* The result list p's search returned.
ResultsOf(p) == ret[p].val[1].Results

\* The stored vectors of the query's element type.
Qualifying(q) == {id \in DOMAIN vectors : vectors[id].Type = QueryType(q)}

Min(a, b) == IF a < b THEN a ELSE b

\* The topK a search works with: the one given, or 10 when it is omitted
\* or <= 0.
EffectiveTopK(topK) == IF Len(topK) = 0 \/ topK[1] <= 0 THEN 10 ELSE topK[1]

\* C1: a Search with a valid query on a store holding a vector whose length
\* differs from the query's returns a DimensionMismatch error and no result;
\* the error names the query's length and the length of a stored vector that
\* differs from it.
C1_DimensionMismatchAborts ==
    \A p \in Procs :
        LET q == call[p].query
        IN  (/\ Done(p, "Search")
             /\ ValidQuery(q)
             /\ \E id \in DOMAIN vectors : Len(vectors[id].Data) # Len(q.elems))
            => /\ ret[p].err.kind = "DimensionMismatch"
               /\ ret[p].val = <<>>
               /\ ret[p].err.a = Len(q.elems)
               /\ ret[p].err.b # Len(q.elems)
               /\ \E id \in DOMAIN vectors : Len(vectors[id].Data) = ret[p].err.b

\* A Search has failed with DimensionMismatch on a store that also holds a
\* vector of the query's length and type.
C1_Witness ==
    \E p \in Procs :
        /\ Done(p, "Search")
        /\ ret[p].err.kind = "DimensionMismatch"
        /\ \E id \in DOMAIN vectors :
              /\ Len(vectors[id].Data) = Len(call[p].query.elems)
              /\ vectors[id].Type = QueryType(call[p].query)

\* C2: a Search made twice with the same arguments on a store not modified
\* in between returns the same error and the same ordered result list.
C2_Idempotent ==
    \A p \in Procs :
        (Done(p, "Search") /\ call[p].again) => ret[p] = call[p].first

\* C3: a Search that returns without error returns min(k, q) results, q the
\* number of stored vectors of the query's element type and k the topK given,
\* or 10 when topK is omitted or <= 0.
C3_ResultCount ==
    \A p \in Procs :
        (Done(p, "Search") /\ ret[p].err = NoErr)
        => /\ ret[p].val # <<>>
           /\ Len(ResultsOf(p)) =
                  Min(EffectiveTopK(call[p].topK),
                      Cardinality(Qualifying(call[p].query)))
           /\ ret[p].val[1].Total = Len(ResultsOf(p))

\* A Search without a positive topK on more than 10 qualifying vectors has
\* returned 10 results.
C3_Witness ==
    \E p \in Procs :
        /\ Done(p, "Search")
        /\ ret[p].err = NoErr
        /\ (call[p].topK = <<>> \/ call[p].topK = <<0>>)
        /\ Cardinality(Qualifying(call[p].query)) > 10
        /\ Len(ResultsOf(p)) = 10

\* The score of the stored vector id for the query q.
ScoreOf(q, id) ==
    calculateSimilarity(q.elems, vectors[id].Data, QueryType(q), distFunc)

\* No stored vector of the query's element type has the score NaN.
NoNaNScore(q) == \A id \in Qualifying(q) : ~IsNaN(ScoreOf(q, id))

\* Go's <= on floating-point values: false when an operand is NaN.
FloatLeq(x, y) == ~IsNaN(x) /\ ~IsNaN(y) /\ x <= y

\* The consecutive entries of a result list are ordered by score: each score
\* is <= the next under EuclideanDistance and ManhattanDistance, and >= the
\* next under CosineSimilarity and DotProduct.
OrderedByScore(results) ==
    \A i \in 1..(Len(results) - 1) :
        IF distFunc \in {EuclideanDistance, ManhattanDistance}
        THEN FloatLeq(results[i].Score, results[i + 1].Score)
        ELSE FloatLeq(results[i + 1].Score, results[i].Score)

\* C4 as stated: in every result list returned by Search consecutive entries
\* are ordered by score, non-decreasing under EuclideanDistance and
\* ManhattanDistance, non-increasing under CosineSimilarity and DotProduct.
C4_Ordered ==
    \A p \in Procs :
        (Done(p, "Search") /\ ret[p].err = NoErr)
        => OrderedByScore(ResultsOf(p))

\* C4, amended: in every result list returned by a Search for which no stored
\* vector of the query's element type has the score NaN, consecutive entries
\* are ordered by score, non-decreasing under EuclideanDistance and
\* ManhattanDistance, non-increasing under CosineSimilarity and DotProduct.
C4_OrderedNoNaN ==
    \A p \in Procs :
        (/\ Done(p, "Search")
         /\ ret[p].err = NoErr
         /\ NoNaNScore(call[p].query))
        => OrderedByScore(ResultsOf(p))

\* A Search under EuclideanDistance, none of whose candidates scores NaN, has
\* returned three results of three different scores, the last of them +Inf.
C4_Witness ==
    \E p \in Procs :
        /\ Done(p, "Search")
        /\ ret[p].err = NoErr
        /\ NoNaNScore(call[p].query)
        /\ distFunc = EuclideanDistance
        /\ Len(ResultsOf(p)) = 3
        /\ FloatLess(ResultsOf(p)[1].Score, ResultsOf(p)[2].Score)
        /\ FloatLess(ResultsOf(p)[2].Score, ResultsOf(p)[3].Score)
        /\ ResultsOf(p)[3].Score = PosInf

\* Score x is strictly better than score y under the store's metric: lower
\* for the distances, higher for the similarities, as Go compares floats.
Better(x, y) ==
    IF distFunc \in {EuclideanDistance, ManhattanDistance}
    THEN FloatLess(x, y)
    ELSE FloatLess(y, x)

\* Every returned ID is that of a stored vector of the query's element type,
\* appears once, and carries the score of the store's metric for the query
\* and that vector.
ReturnsCandidates(p) ==
    LET q == call[p].query
        R == ResultsOf(p)
    IN  /\ \A i \in 1..Len(R) :
              /\ R[i].ID \in Qualifying(q)
              /\ R[i].Score = ScoreOf(q, R[i].ID)
        /\ \A i, j \in 1..Len(R) : R[i].ID = R[j].ID => i = j

\* No qualifying vector that is not returned scores strictly better than a
\* returned one.
ReturnsBest(p) ==
    LET q == call[p].query
        R == ResultsOf(p)
        returned == {R[i].ID : i \in 1..Len(R)}
    IN  \A i \in 1..Len(R) :
            \A id \in Qualifying(q) \ returned :
                ~Better(ScoreOf(q, id), R[i].Score)

\* C5 as stated: a Search returns the best-scoring candidates: no qualifying
\* vector left out scores strictly better than a returned one; every returned
\* ID is that of a stored qualifying vector, appears once, and carries the
\* score of the store's metric for the query and that vector.
C5_BestScoring ==
    \A p \in Procs :
        (Done(p, "Search") /\ ret[p].err = NoErr)
        => ReturnsCandidates(p) /\ ReturnsBest(p)

\* C5, amended: every ID a Search returns is that of a stored qualifying
\* vector, appears once, and carries the score of the store's metric for the
\* query and that vector; and when no qualifying vector has the score NaN,
\* no qualifying vector left out scores strictly better than a returned one.
C5_BestScoringNoNaN ==
    \A p \in Procs :
        (Done(p, "Search") /\ ret[p].err = NoErr)
        => /\ ReturnsCandidates(p)
           /\ NoNaNScore(call[p].query) => ReturnsBest(p)

\* A Search on three qualifying vectors of three different scores, none of
\* them NaN, has returned the two best, in order, and left out the worst.
C5_Witness ==
    \E p \in Procs :
        /\ Done(p, "Search")
        /\ ret[p].err = NoErr
        /\ NoNaNScore(call[p].query)
        /\ Cardinality(Qualifying(call[p].query)) = 3
        /\ Len(ResultsOf(p)) = 2
        /\ Better(ResultsOf(p)[1].Score, ResultsOf(p)[2].Score)
        /\ \E id \in Qualifying(call[p].query) :
              /\ id \notin {ResultsOf(p)[1].ID, ResultsOf(p)[2].ID}
              /\ Better(ResultsOf(p)[2].Score, ScoreOf(call[p].query, id))

\* The stored vectors the filter of p's searchCore call lets through.
Passing(p) ==
    IF call[p].filter.nil THEN DOMAIN vectors
    ELSE {id \in DOMAIN vectors : id \in call[p].filter.accepts}

\* C6: searchCore checks each stored vector against the filter, then its
\* length, then its element type: when every vector the filter lets through
\* has the query's length the call does not fail, whatever the lengths of the
\* vectors the filter rejects; and a vector the filter lets through that
\* differs from the query in length and in element type makes the call fail
\* with DimensionMismatch.
C6_CheckOrder ==
    \A p \in Procs :
        LET q == call[p].query
        IN  (Done(p, "searchCore") /\ ValidQuery(q))
            => /\ (\A id \in Passing(p) : Len(vectors[id].Data) = Len(q.elems))
                      => ret[p].err = NoErr
               /\ (\E id \in Passing(p) :
                      /\ Len(vectors[id].Data) # Len(q.elems)
                      /\ vectors[id].Type # QueryType(q))
                      => /\ ret[p].err.kind = "DimensionMismatch"
                         /\ ret[p].val = <<>>

\* A searchCore call has returned without error although a vector its filter
\* rejects has a length different from the query's.
C6_Witness ==
    \E p \in Procs :
        /\ Done(p, "searchCore")
        /\ ValidQuery(call[p].query)
        /\ ret[p].err = NoErr
        /\ ResultsOf(p) # <<>>
        /\ \E id \in DOMAIN vectors \ Passing(p) :
              Len(vectors[id].Data) # Len(call[p].query.elems)

\* C7: a stored vector of the query's length and of the other element type
\* is not in the results and does not make Search fail: every returned entry
\* is a stored vector of the query's element type, a Search on a store whose
\* vectors all have the query's length does not fail, and a store holding
\* only vectors of the other type yields an empty result list and no error.
C7_TypeMismatchSkipped ==
    \A p \in Procs :
        LET q == call[p].query
        IN  (Done(p, "Search") /\ ValidQuery(q))
            => /\ ret[p].err = NoErr
                      => \A i \in 1..Len(ResultsOf(p)) :
                             vectors[ResultsOf(p)[i].ID].Type = QueryType(q)
               /\ (\A id \in DOMAIN vectors :
                      Len(vectors[id].Data) = Len(q.elems))
                      => ret[p].err = NoErr
               /\ (\A id \in DOMAIN vectors :
                      /\ Len(vectors[id].Data) = Len(q.elems)
                      /\ vectors[id].Type # QueryType(q))
                      => /\ ret[p].err = NoErr
                         /\ ResultsOf(p) = <<>>

\* A Search has returned a result from a store that also holds a vector of
\* the query's length and of the other element type.
C7_Witness ==
    \E p \in Procs :
        /\ Done(p, "Search")
        /\ ret[p].err = NoErr
        /\ ResultsOf(p) # <<>>
        /\ \E id \in DOMAIN vectors :
              /\ Len(vectors[id].Data) = Len(call[p].query.elems)
              /\ vectors[id].Type # QueryType(call[p].query)

\* The query q fails on the store as it is: it is of an unsupported type, it
\* is empty, or a stored vector has another length.
QueryFails(q) ==
    \/ ~ValidQuery(q)
    \/ \E id \in DOMAIN vectors : Len(vectors[id].Data) # Len(q.elems)

\* C8: BatchSearch returns a result for every query key, each tagged with its
\* key, and no error; or, when a query of the batch fails, an error that
\* names the key of a failing query, and no result map.
C8_BatchAllOrNothing ==
    \A p \in Procs :
        Done(p, "BatchSearch")
        => LET queries == call[p].queries
               failing == {k \in DOMAIN queries : QueryFails(queries[k])}
           IN  IF failing = {}
               THEN /\ ret[p].err = NoErr
                    /\ ret[p].val # <<>>
                    /\ DOMAIN ret[p].val[1] = DOMAIN queries
                    /\ \A k \in DOMAIN queries : ret[p].val[1][k].QueryID = k
               ELSE /\ ret[p].err.kind = "SearchFailed"
                    /\ ret[p].err.key \in failing
                    /\ ret[p].val = <<>>

\* A BatchSearch of two queries, one that fails and one that does not, has
\* returned an error and no result map.
C8_Witness ==
    \E p \in Procs :
        /\ Done(p, "BatchSearch")
        /\ \E k1, k2 \in DOMAIN call[p].queries :
              /\ QueryFails(call[p].queries[k1])
              /\ ~QueryFails(call[p].queries[k2])
        /\ DOMAIN vectors # {}
        /\ ret[p].err.kind = "SearchFailed"
        /\ ret[p].val = <<>>

\* The query p's searchCore call in progress works on, and the topK it was
\* called with.
QueryOf(p) ==
    IF call[p].op = "BatchSearch" THEN call[p].queries[batch[p].key]
    ELSE call[p].query
TopKOf(p) == topKOrDefault(call[p].topK)

\* What searchCore returns for the query on the store, run as a whole, for
\* every order its range can take.
Rankings(store, query, topK) ==
    {searchCore(store, distFunc, query, topK, TRUE, NilFilter, order) :
        order \in RangeOrders(DOMAIN store)}

\* C9: a search is atomic with respect to concurrent writers.  A caller that
\* scans the store or has built its result holds the read lock, a caller
\* between the first and the last write of its mutation holds the exclusive
\* lock, and the two exclude each other; every entry collected so far in a
\* scan is a stored vector of the query's type with the score of the vector
\* as it is stored now; and the result built, while the read lock is still
\* held, is what searchCore run as a whole returns on the store as it is.
C9_SearchAtomic ==
    /\ mu.w # 0 => mu.r = {}
    /\ \A p \in Procs :
          /\ pc[p] \in {"scan", "runlock"} => p \in mu.r
          /\ pc[p] \in {"write", "write2", "unlock"} => mu.w = p
          /\ pc[p] = "scan"
                => /\ sc[p].visited \subseteq DOMAIN vectors
                   /\ \A i \in 1..Len(sc[p].results) :
                         LET r == sc[p].results[i]
                         IN  /\ r.ID \in sc[p].visited
                             /\ vectors[r.ID].Type = sc[p].queryType
                             /\ r.Score = calculateSimilarity(
                                    sc[p].querySlice, vectors[r.ID].Data,
                                    sc[p].queryType, distFunc)
          /\ pc[p] = "runlock"
                => sc[p].out \in Rankings(vectors, QueryOf(p), TopKOf(p))

\* A search has built a result of one entry from a store of two vectors
\* while an Update that passed its checks waits for the lock.
C9_Witness ==
    \E p, w \in Procs :
        /\ pc[p] = "runlock"
        /\ sc[p].out.err = NoErr
        /\ Len(sc[p].out.val[1].Results) = 1
        /\ Cardinality(DOMAIN vectors) = 2
        /\ pc[w] = "lock"
        /\ call[w].op = "Update"
        /\ call[w].id \in DOMAIN vectors

\* The stores that hold, under some of the IDs, vectors of the values given.
StoresOver(ids, values) ==
    UNION {{[id \in S |-> NewVector(id, convertToInterfaceSlice(f[id]))] :
               f \in [S -> values]} : S \in SUBSET ids}

\* C10: the store is stable for a whole BatchSearch: the results of one
\* returned map are all computed against the same store contents, that is,
\* there is one store on which every query of the batch, searched as a
\* whole, returns the result the map holds under its key.
C10_BatchStable ==
    \A p \in Procs :
        (Done(p, "BatchSearch") /\ ret[p].err = NoErr)
        => \E store \in StoresOver(IDs, ConcValues) :
              \A k \in DOMAIN call[p].queries :
                 \E out \in Rankings(store, call[p].queries[k], TopKOf(p)) :
                    /\ out.err = NoErr
                    /\ ret[p].val[1][k] = [out.val[1] EXCEPT !.QueryID = k]

\* C11: after any sequence of Add, Update, BatchAdd, Delete and Clear calls,
\* on a store of any configured dimension, every stored vector's data has a
\* length > 0.
C11_StoredNonEmpty ==
    \A id \in DOMAIN vectors : Len(vectors[id].Data) > 0

\* C12: a Search with a non-empty query of a supported type on a store that
\* holds no vectors returns an empty result list and no error, for every
\* metric, every topK, every length of the query and every configured
\* dimension.
C12_EmptyStoreSearch ==
    \A p \in Procs :
        (/\ Done(p, "Search")
         /\ ValidQuery(call[p].query)
         /\ DOMAIN vectors = {})
        => /\ ret[p].err = NoErr
           /\ ret[p].val # <<>>
           /\ ResultsOf(p) = <<>>
           /\ ret[p].val[1].Total = 0

\* A Search on an empty store of a dimension > 0 other than the query's
\* length, under a distance metric and with a topK <= 0, has returned without
\* error.
C12_Witness ==
    \E p \in Procs :
        /\ Done(p, "Search")
        /\ DOMAIN vectors = {}
        /\ dimension > 0
        /\ ValidQuery(call[p].query)
        /\ Len(call[p].query.elems) # dimension
        /\ distFunc = EuclideanDistance
        /\ call[p].topK = <<-1>>
        /\ ret[p].err = NoErr

\* C13: the query is validated before any stored vector is examined: every
\* Search with a query of an unsupported type returns an UnsupportedType
\* error, every Search with a query of zero elements an empty-vector error,
\* both without a result and whatever the store holds, and the store is left
\* as it was.
C13_QueryValidatedFirst ==
    [][\A p \in Procs :
          (/\ pc[p] = "idle"
           /\ pc'[p] = "return"
           /\ call'[p].op = "Search"
           /\ ~ValidQuery(call'[p].query))
          => /\ ret'[p].err.kind =
                    IF call'[p].query.kind \in {GoFloat32s, GoFloat64s}
                    THEN "EmptyQuery" ELSE "UnsupportedType"
             /\ ret'[p].val = <<>>
             /\ vectors' = vectors]_vars

\* A Search with a query of zero elements has failed with the empty-vector
\* error on a store holding a vector of a length > 0, which a scan would have
\* met with DimensionMismatch.
C13_Witness ==
    \E p \in Procs :
        /\ Done(p, "Search")
        /\ call[p].query.kind = GoFloat32s
        /\ call[p].query.elems = <<>>
        /\ ret[p].err.kind = "EmptyQuery"
        /\ \E id \in DOMAIN vectors : Len(vectors[id].Data) > 0

\* C14: no public operation on a constructed store, whatever its arguments and
\* whatever the interleaving of concurrent callers, ends in an uncontrolled
\* abort.  No caller is aborted, by a failed type assertion or by an access
\* to the map that races with a write; no caller looks up, ranges over or
\* writes the map while another is between the first and the last write of
\* its mutation; a caller that reads the stored vectors finds in the Data of
\* each of them elements of its Type; and every operation that ends returns
\* either an error and nothing else, or no error and, when it is an
\* operation that has a result, its result.
C14_NoAbort ==
    \A p \in Procs :
        /\ pc[p] # "panic"
        /\ pc[p] \in {"scan", "read", "write", "write2"} => ~Racing(p)
        /\ pc[p] \in {"scan", "read"}
              => \A id \in DOMAIN vectors :
                    vectors[id].ElemType = vectors[id].Type
        /\ pc[p] = "return"
              => /\ ret[p].err # NoErr => ret[p].val = <<>>
                 /\ (/\ ret[p].err = NoErr
                     /\ call[p].op \in {"Search", "BatchSearch", "Get", "Size",
                                       "GetStats"})
                       => ret[p].val # <<>>

\* A search is in the middle of its scan, one vector looked at and a vector
\* of the query's type and length still to go, while another caller waits
\* for the lock with an Update of that vector to the other element type.
C14_Witness ==
    \E p, w \in Procs :
        /\ pc[p] = "scan"
        /\ sc[p].visited # {}
        /\ pc[w] = "lock"
        /\ call[w].op = "Update"
        /\ call[w].id \in DOMAIN vectors \ sc[p].visited
        /\ vectors[call[w].id].Type = sc[p].queryType
        /\ Len(vectors[call[w].id].Data) = Len(sc[p].querySlice)
        /\ ValidQuery(call[w].data)
        /\ QueryType(call[w].data) # sc[p].queryType
        /\ Len(call[w].data.elems) = Len(sc[p].querySlice)

\* The stored vector v is what a write of the Go value data under id leaves.
Holds(v, id, data) ==
    /\ v.ID = id
    /\ v.Type = QueryType(data)
    /\ v.Data = data.elems

\* Apart from the keys in written, the store is after the step what it was.
OthersKept(written) ==
    /\ DOMAIN vectors' \ written = DOMAIN vectors \ written
    /\ \A i \in DOMAIN vectors \ written : vectors'[i] = vectors[i]

\* The step in which caller p runs one store operation changes the store, and
\* returns, as the same operation on a map from ID to vector.
MapStep(p) ==
    LET c == call'[p]
        r == ret'[p]
    IN  CASE c.op = "Add" ->
                IF r.err = NoErr
                THEN /\ c.id \in DOMAIN vectors'
                     /\ Holds(vectors'[c.id], c.id, c.data)
                     /\ OthersKept({c.id})
                ELSE vectors' = vectors
          [] c.op = "Update" ->
                IF r.err = NoErr
                THEN /\ c.id \in DOMAIN vectors
                     /\ c.id \in DOMAIN vectors'
                     /\ Holds(vectors'[c.id], c.id, c.data)
                     /\ OthersKept({c.id})
                ELSE vectors' = vectors
          [] c.op = "BatchAdd" ->
                IF r.err = NoErr
                THEN /\ DOMAIN c.vectors \subseteq DOMAIN vectors'
                     /\ \A i \in DOMAIN c.vectors :
                           Holds(vectors'[i], i, c.vectors[i])
                     /\ OthersKept(DOMAIN c.vectors)
                ELSE vectors' = vectors
          [] c.op = "Delete" ->
                IF r.err = NoErr
                THEN /\ c.id \in DOMAIN vectors
                     /\ c.id \notin DOMAIN vectors'
                     /\ OthersKept({c.id})
                ELSE c.id \notin DOMAIN vectors /\ vectors' = vectors
          [] c.op = "Clear" -> DOMAIN vectors' = {}
          [] c.op = "Get" ->
                /\ vectors' = vectors
                /\ IF c.id \in DOMAIN vectors
                   THEN /\ r.err = NoErr
                        /\ r.val # <<>>
                        /\ r.val[1].ID = c.id
                        /\ r.val[1].Type = vectors[c.id].Type
                        /\ r.val[1].Data = vectors[c.id].Data
                   ELSE r.err.kind = "NotFound" /\ r.val = <<>>
          [] c.op = "Size" ->
                /\ vectors' = vectors
                /\ r.val = <<Cardinality(DOMAIN vectors)>>
          [] OTHER -> vectors' = vectors

\* C15: the store behaves as a map from ID to vector.  Every successful Add,
\* Update and BatchAdd leaves under its id the ID, element type and element
\* values it was given, Delete and Clear remove, a failed operation changes
\* nothing and no operation touches another id; Get returns what is stored
\* under the id, or a not-found error when nothing is, and Size the number of
\* IDs stored.  So Get returns the most recent successful write not removed
\* since.
C15_MapSemantics ==
    [][\A p \in Procs :
          (pc[p] = "idle" /\ pc'[p] = "return") => MapStep(p)]_vars

\* A Get has returned the float32 vector stored under its id from a store
\* that also holds a float64 vector of another length.
C15_Witness ==
    \E p \in Procs :
        /\ Done(p, "Get")
        /\ ret[p].err = NoErr
        /\ ret[p].val[1].Type = Float32
        /\ ret[p].val[1].Data = vectors[call[p].id].Data
        /\ \E id \in DOMAIN vectors :
              /\ vectors[id].Type = Float64
              /\ Len(vectors[id].Data) # Len(ret[p].val[1].Data)

\* The Go value is a []float32 or a []float64.
SupportedType(data) == data.kind \in {GoFloat32s, GoFloat64s}

\* The step in which caller p runs Add, Update or BatchAdd enforces the
\* configured dimension.
DimensionStep(p) ==
    LET c == call'[p]
        r == ret'[p]
        wrong(data) == SupportedType(data) /\ Len(data.elems) # dimension
    IN  /\ (/\ dimension > 0
            /\ \/ c.op \in {"Add", "Update"} /\ wrong(c.data)
               \/ c.op = "BatchAdd"
                     /\ \E i \in DOMAIN c.vectors : wrong(c.vectors[i]))
           => r.err # NoErr /\ vectors' = vectors
        /\ (dimension = 0 /\ c.op = "Add" /\ c.id # EmptyID
                /\ SupportedType(c.data) /\ Len(c.data.elems) > 0)
           => r.err = NoErr
        /\ (dimension = 0 /\ c.op = "Update" /\ c.id \in DOMAIN vectors
                /\ SupportedType(c.data))
           => r.err = NoErr
        /\ (dimension = 0 /\ c.op = "BatchAdd" /\ DOMAIN c.vectors # {}
                /\ \A i \in DOMAIN c.vectors :
                      i # EmptyID /\ SupportedType(c.vectors[i]))
           => r.err = NoErr

\* C16: on a store constructed with dimension d > 0, Add, Update and BatchAdd
\* reject data of a length other than d with an error and leave the store as
\* it was, and every stored vector has length d; with d = 0 none of them
\* rejects data for its length differing from that of the stored vectors.
C16_DimensionEnforced ==
    [][/\ dimension > 0
          => \A id \in DOMAIN vectors' : Len(vectors'[id].Data) = dimension
       /\ \A p \in Procs :
             (pc[p] = "idle" /\ pc'[p] = "return") => DimensionStep(p)]_vars

\* On a store of dimension > 0 an Update of a stored vector with data of
\* another length has failed with the dimension error.
C16_Witness ==
    \E p \in Procs :
        /\ Done(p, "Update")
        /\ dimension > 0
        /\ call[p].id \in DOMAIN vectors
        /\ SupportedType(call[p].data)
        /\ Len(call[p].data.elems) > 0
        /\ Len(call[p].data.elems) # dimension
        /\ ret[p].err.kind = "DimensionMismatch"

\* C17: Get returns a copy isolated from the store: after the caller has
\* written to the Data, to the Metadata or to an entry of the Tags of the
\* Vector it got, a second Get of the same id returns what the first one
\* returned.
C17_GetIsolated ==
    \A p \in Procs :
        (Done(p, "Get") /\ "again" \in DOMAIN call[p])
        => /\ ret[p].err = NoErr
           /\ View(ret[p].val[1]) = call[p].seen

\* Every element of the slice a is finite: neither NaN nor an infinity.
AllFinite(a) == \A i \in DOMAIN a : IsFinite(a[i])

\* C18 as stated: for non-empty slices a and b of equal length and of the
\* same element type, dotProduct(a, b) == dotProduct(b, a).
C18_DotProductCommutes ==
    \A p \in Procs :
        (/\ Done(p, "dotProduct")
         /\ Len(call[p].a) = Len(call[p].b)
         /\ Len(call[p].a) > 0)
        => FloatEq(ret[p].val[1],
                   dotProduct(call[p].b, call[p].a, call[p].vecType))

\* C18, amended: for non-empty slices a and b of equal length and of the same
\* element type, dotProduct(a, b) and dotProduct(b, a) are equal or are both
\* NaN.
C18_DotProductCommutesOrNaN ==
    \A p \in Procs :
        (/\ Done(p, "dotProduct")
         /\ Len(call[p].a) = Len(call[p].b)
         /\ Len(call[p].a) > 0)
        => LET ab == ret[p].val[1]
               ba == dotProduct(call[p].b, call[p].a, call[p].vecType)
           IN  FloatEq(ab, ba) \/ (IsNaN(ab) /\ IsNaN(ba))

\* dotProduct has returned a non-zero finite product of two different slices
\* of length 2.
C18_Witness ==
    \E p \in Procs :
        /\ Done(p, "dotProduct")
        /\ Len(call[p].a) = 2
        /\ Len(call[p].b) = 2
        /\ call[p].a # call[p].b
        /\ AllFinite(call[p].a)
        /\ AllFinite(call[p].b)
        /\ IsFinite(ret[p].val[1])
        /\ ret[p].val[1] # 0

\* p has the distance of a slice to itself.
SelfDistance(p) ==
    /\ Done(p, "euclideanDistance") \/ Done(p, "manhattanDistance")
    /\ call[p].a = call[p].b

\* C19 as stated: for every slice a, euclideanDistance(a, a) == 0 and
\* manhattanDistance(a, a) == 0.
C19_SelfDistanceZero ==
    \A p \in Procs : SelfDistance(p) => FloatEq(ret[p].val[1], 0)

\* C19, amended: for every slice a of finite elements,
\* euclideanDistance(a, a) == 0 and manhattanDistance(a, a) == 0.
C19_FiniteSelfDistanceZero ==
    \A p \in Procs :
        (SelfDistance(p) /\ AllFinite(call[p].a))
        => FloatEq(ret[p].val[1], 0)

\* euclideanDistance has returned the distance to itself of a slice of
\* length 2 of finite non-zero elements.
C19_Witness ==
    \E p \in Procs :
        /\ Done(p, "euclideanDistance")
        /\ call[p].a = call[p].b
        /\ Len(call[p].a) = 2
        /\ \A i \in DOMAIN call[p].a :
              IsFinite(call[p].a[i]) /\ call[p].a[i] # 0
        /\ ret[p].val[1] = 0

\* The absolute value of the float x: |NaN| is NaN and |-Inf| is +Inf.
FloatAbs(x) ==
    IF IsNaN(x) THEN NaN
    ELSE IF IsInf(x) THEN PosInf
    ELSE IF x < 0 THEN 0 - x ELSE x

\* The difference a[i] - b[i] of two floats.
FloatSub(x, y) ==
    IF IsNaN(x) \/ IsNaN(y) THEN NaN
    ELSE IF IsInf(x) /\ IsInf(y) THEN (IF x = y THEN NaN ELSE x)
    ELSE IF IsInf(x) THEN x
    ELSE IF IsInf(y) THEN (IF y = PosInf THEN NegInf ELSE PosInf)
    ELSE x - y

\* Every term manhattanDistance adds for p's arguments is |a[i] - b[i]|.
TermsAreAbsolute(p) ==
    (Done(p, "manhattanDistance") /\ Len(call[p].a) = Len(call[p].b))
    => \A i \in DOMAIN call[p].a :
          absDiff(elementDiff(call[p].a[i], call[p].b[i]))
              = FloatAbs(FloatSub(call[p].a[i], call[p].b[i]))

\* p has a result of euclideanDistance or of manhattanDistance.
DistanceDone(p) ==
    Done(p, "euclideanDistance") \/ Done(p, "manhattanDistance")

\* C20 as stated: euclideanDistance(a, b) >= 0 and manhattanDistance(a, b) >= 0
\* for all a and b, of equal lengths or not, and every term manhattanDistance
\* adds is |a[i] - b[i]|.
C20_DistanceNonNegative ==
    \A p \in Procs :
        /\ DistanceDone(p) => ~IsNaN(ret[p].val[1]) /\ ret[p].val[1] >= 0
        /\ TermsAreAbsolute(p)

\* C20, amended: euclideanDistance(a, b) >= 0 and manhattanDistance(a, b) >= 0
\* for all a and b of finite elements, of equal lengths or not, and every term
\* manhattanDistance adds is |a[i] - b[i]|.
C20_FiniteDistanceNonNegative ==
    \A p \in Procs :
        /\ (DistanceDone(p) /\ AllFinite(call[p].a) /\ AllFinite(call[p].b))
           => ~IsNaN(ret[p].val[1]) /\ ret[p].val[1] >= 0
        /\ TermsAreAbsolute(p)

\* manhattanDistance has returned a positive finite distance of two slices of
\* length 2 with a[i] < b[i] at some index: the term there is the negated
\* difference.
C20_Witness ==
    \E p \in Procs :
        /\ Done(p, "manhattanDistance")
        /\ Len(call[p].a) = 2
        /\ Len(call[p].b) = 2
        /\ AllFinite(call[p].a)
        /\ AllFinite(call[p].b)
        /\ \E i \in DOMAIN call[p].a : call[p].a[i] < call[p].b[i]
        /\ IsFinite(ret[p].val[1])
        /\ ret[p].val[1] > 0

\* p has the result of a metric called on slices of different lengths.
MismatchDone(p, op) == Done(p, op) /\ Len(call[p].a) # Len(call[p].b)

\* On slices of different lengths dotProduct returns 0 and euclideanDistance
\* and manhattanDistance return +Inf.
MismatchResults(p) ==
    /\ MismatchDone(p, "dotProduct") => FloatEq(ret[p].val[1], 0)
    /\ MismatchDone(p, "euclideanDistance") => ret[p].val[1] = PosInf
    /\ MismatchDone(p, "manhattanDistance") => ret[p].val[1] = PosInf

\* C21 as stated: on two slices of different lengths dotProduct and
\* cosineSimilarity return 0 and euclideanDistance and manhattanDistance
\* return +Inf.  (A read beyond the end of a slice would stop the evaluation
\* of the metric, so a metric that has returned has made none.)
C21_LengthMismatch ==
    \A p \in Procs :
        /\ MismatchResults(p)
        /\ MismatchDone(p, "cosineSimilarity") => FloatEq(ret[p].val[1], 0)

\* C21, amended: on two slices of different lengths dotProduct returns 0,
\* euclideanDistance and manhattanDistance return +Inf, and cosineSimilarity
\* returns 0 or, when neither norm is 0 and the product of the two norms is
\* NaN or 0, NaN.
C21_LengthMismatchOrNaN ==
    \A p \in Procs :
        /\ MismatchResults(p)
        /\ MismatchDone(p, "cosineSimilarity")
           => LET normA == norm(call[p].a, call[p].vecType)
                  normB == norm(call[p].b, call[p].vecType)
                  product == MulFloat64(normA, normB)
                  undefined == /\ ~FloatEq(normA, 0)
                               /\ ~FloatEq(normB, 0)
                               /\ IsNaN(product) \/ product = 0
              IN  IF undefined THEN IsNaN(ret[p].val[1])
                  ELSE FloatEq(ret[p].val[1], 0)

\* euclideanDistance has returned +Inf for a slice of length 2 and a slice of
\* length 1, both of finite non-zero elements.
C21_Witness ==
    \E p \in Procs :
        /\ Done(p, "euclideanDistance")
        /\ Len(call[p].a) = 2
        /\ Len(call[p].b) = 1
        /\ \A i \in DOMAIN call[p].a : IsFinite(call[p].a[i]) /\ call[p].a[i] # 0
        /\ IsFinite(call[p].b[1]) /\ call[p].b[1] # 0
        /\ ret[p].val[1] = PosInf

\* The score x is 1 within the floating tolerance.
NearOne(x) == IsFinite(x) /\ x - Scale \in (0 - Tolerance)..Tolerance

\* The slice a is not the zero vector.
NonZero(a) == \E i \in DOMAIN a : a[i] # 0

\* The norm of the slice a is a finite number other than 0.
FiniteNonZeroNorm(a, vecType) ==
    IsFinite(norm(a, vecType)) /\ norm(a, vecType) # 0

\* The slices u and v, of finite elements, point in the same direction.
Parallel(u, v) ==
    /\ Len(u) = Len(v)
    /\ AllFinite(u)
    /\ AllFinite(v)
    /\ \A i, j \in DOMAIN u : u[i] * v[j] = u[j] * v[i]
    /\ \E i \in DOMAIN u : u[i] * v[i] > 0

\* The stored vectors equal to the query q: same type, same elements.
Matching(q) == {id \in Qualifying(q) : vectors[id].Data = q.elems}

\* No stored vector other than id, of the query's type, is parallel to q.
NoOtherParallel(q, id) ==
    \A o \in Qualifying(q) \ {id} : ~Parallel(q.elems, vectors[o].Data)

\* p's Search returned one result, of score 1, which is the vector id when no
\* other stored vector is parallel to the query.
FindsMatch(p, id) ==
    /\ ret[p].err = NoErr
    /\ Len(ResultsOf(p)) = 1
    /\ NearOne(ResultsOf(p)[1].Score)
    /\ NoOtherParallel(call[p].query, id) => ResultsOf(p)[1].ID = id

\* cosineSimilarity returns 0 when either argument has norm 0.
ZeroNormGivesZero(p) ==
    (/\ Done(p, "cosineSimilarity")
     /\ \/ FloatEq(norm(call[p].a, call[p].vecType), 0)
        \/ FloatEq(norm(call[p].b, call[p].vecType), 0))
    => FloatEq(ret[p].val[1], 0)

\* C22 as stated: cosineSimilarity(a, a) is 1 within tolerance for every
\* non-zero a, and cosineSimilarity is 0 when an argument has norm 0; a Search
\* with topK = 1 under CosineSimilarity whose query equals a stored non-zero
\* vector returns one result, of score 1, which is the matching vector when no
\* other stored vector is parallel to the query.
C22_CosineOfSelf ==
    \A p \in Procs :
        /\ (/\ Done(p, "cosineSimilarity")
            /\ call[p].a = call[p].b
            /\ NonZero(call[p].a))
           => NearOne(ret[p].val[1])
        /\ ZeroNormGivesZero(p)
        /\ Done(p, "Search")
           => \A id \in Matching(call[p].query) :
                 NonZero(call[p].query.elems) => FindsMatch(p, id)

\* C22, amended: cosineSimilarity(a, a) is 1 within tolerance for every a
\* whose norm is finite and not 0, and cosineSimilarity is 0 when an argument
\* has norm 0; a Search with topK = 1 under CosineSimilarity whose query
\* equals a stored vector of finite non-zero norm, on a store whose vectors
\* all have the query's length and none of which has a NaN score, returns one
\* result, of score 1, which is the matching vector when no other stored
\* vector is parallel to the query.
C22_CosineOfSelfFinite ==
    \A p \in Procs :
        /\ (/\ Done(p, "cosineSimilarity")
            /\ call[p].a = call[p].b
            /\ FiniteNonZeroNorm(call[p].a, call[p].vecType))
           => NearOne(ret[p].val[1])
        /\ ZeroNormGivesZero(p)
        /\ Done(p, "Search")
           => LET q == call[p].query
              IN  (/\ FiniteNonZeroNorm(q.elems, QueryType(q))
                   /\ \A o \in DOMAIN vectors :
                         Len(vectors[o].Data) = Len(q.elems)
                   /\ \A o \in Qualifying(q) : ~IsNaN(ScoreOf(q, o)))
                  => \A id \in Matching(q) : FindsMatch(p, id)

\* A Search has returned the stored vector equal to its query, with score 1,
\* from a store that also holds a vector of the query's type and length that
\* is not parallel to it and scores above 0.
C22_Witness ==
    \E p \in Procs :
        /\ Done(p, "Search")
        /\ ret[p].err = NoErr
        /\ Len(ResultsOf(p)) = 1
        /\ NearOne(ResultsOf(p)[1].Score)
        /\ ResultsOf(p)[1].ID \in Matching(call[p].query)
        /\ Len(call[p].query.elems) = 2
        /\ \E o \in Qualifying(call[p].query) :
              /\ ~Parallel(call[p].query.elems, vectors[o].Data)
              /\ Len(vectors[o].Data) = 2
              /\ IsFinite(ScoreOf(call[p].query, o))
              /\ ScoreOf(call[p].query, o) > 0

\* The entry id of the batch has an empty ID, data of an unsupported type, or
\* a length that differs from the dimension the store is configured with.
BadEntry(batchVectors, id) ==
    \/ id = EmptyID
    \/ batchVectors[id].kind \notin {GoFloat32s, GoFloat64s}
    \/ dimension > 0 /\ Len(batchVectors[id].elems) # dimension

\* Caller w's BatchAdd has written some entries of its batch and not the
\* others.
PartialBatch(w) ==
    /\ pc[w] = "write"
    /\ call[w].op = "BatchAdd"
    /\ batch[w].pending # DOMAIN call[w].vectors

\* The step is one of w's BatchAdd and does what BatchAdd is to do: a call
\* with a bad entry ends at once with an error and the store as it was; a
\* call with entries that are all good goes on to write; and when it has
\* returned, Get finds every entry of the batch with the data given.
BatchAddStep(w) ==
    LET batchVectors == call'[w].vectors
        bad == \E id \in DOMAIN batchVectors : BadEntry(batchVectors, id)
    IN  /\ (pc[w] = "idle" /\ pc'[w] # "idle" /\ call'[w].op = "BatchAdd")
           => IF bad
              THEN /\ pc'[w] = "return"
                   /\ ret'[w].err # NoErr
                   /\ vectors' = vectors
              ELSE DOMAIN batchVectors # {} => pc'[w] = "lock"
        /\ (pc[w] = "unlock" /\ pc'[w] = "return" /\ call[w].op = "BatchAdd")
           => /\ ret'[w].err = NoErr
              /\ \A id \in DOMAIN batchVectors :
                    LET got == getResult(vectors', id)
                    IN  /\ got.err = NoErr
                        /\ got.val[1].ID = id
                        /\ got.val[1].Data = batchVectors[id].elems
                        /\ got.val[1].Type = QueryType(batchVectors[id])

\* C23: BatchAdd is all-or-nothing.  A batch with an entry of empty ID, of
\* unsupported type or of a length violating the dimension is answered with
\* an error and leaves the store unchanged; any other batch is stored whole,
\* each entry under its ID and found by Get; and while a batch is partly
\* written no Get, Size or Search holds the read lock under which it reads
\* the store.
C23_BatchAddAllOrNothing ==
    [][/\ \A w \in Procs : BatchAddStep(w)
       /\ \A w \in Procs, p \in Procs : PartialBatch(w) => p \notin mu.r]_vars

\* A BatchAdd has written one of its two entries while a Get, Size or Search
\* waits for the read lock.
C23_Witness ==
    \E w \in Procs, p \in Procs :
        /\ PartialBatch(w)
        /\ Cardinality(DOMAIN call[w].vectors) = 2
        /\ Cardinality(batch[w].pending) = 1
        /\ pc[p] \in {"rlock", "rdlock"}

\* The sum of the products a[i] * b[i] of the first k indices, added one
\* after the other from the first.
RECURSIVE PlainSum(_, _, _)
PlainSum(a, b, k) ==
    IF k = 0 THEN 0
    ELSE opsAdd(PlainSum(a, b, k - 1), opsMul(a[k], b[k]))

\* C24: for slices a and b of any one length n, the unrolled loop and the
\* remainder loop of dotProduct add the products at the indices 0, 1, ..,
\* n - 1, each once, in this order and at no other index, and dotProduct
\* returns the plain sum of the products a[i] * b[i].
C24_DotProductPlainSum ==
    \A p \in Procs :
        (Done(p, "dotProduct") /\ Len(call[p].a) = Len(call[p].b))
        => LET n == Len(call[p].a)
           IN  /\ dotProductOrder(n) = [k \in 1..n |-> k - 1]
               /\ ret[p].val[1]
                     = ToFloat64(PlainSum(call[p].a, call[p].b, n),
                                 call[p].vecType)

\* dotProduct has returned the non-zero product of two different slices of
\* length 17: two runs of the unrolled loop and one of the remainder loop.
C24_Witness ==
    \E p \in Procs :
        /\ Done(p, "dotProduct")
        /\ Len(call[p].a) = 17
        /\ Len(call[p].b) = 17
        /\ call[p].a # call[p].b
        /\ call[p].a[17] # 0
        /\ call[p].b[17] # 0
        /\ ret[p].val[1] > Scale

====
